---- MODULE Spec2Model ----
(***************************************************************************)
(* Database session worker of dbmiru.                                      *)
(*                                                                         *)
(* Two implementations of the same worker live in the repository:          *)
(*   "lib"  the adapter-based worker      src/db/src/lib.rs + postgres.rs  *)
(*   "ui"   the worker embedded in the UI src/src/db.rs                    *)
(* One spawn_session call is modelled: the worker thread, the supervisor   *)
(* (handshake) thread, the connection monitor task that shares the         *)
(* worker's single-threaded runtime, the consumer that owns the            *)
(* DbSessionHandle, and the database connection as the environment.        *)
(* The event channel is async_channel::unbounded (src/src/main.rs:72): a   *)
(* send never blocks, and it fails only once the consumer's receiver is    *)
(* gone, which the application never lets happen and SpecClosed does.      *)
(***************************************************************************)
EXTENDS Integers, Sequences, FiniteSets, TLC

\* ---------------------------------------------------------------- bounds
\* Commands the consumer issues through the handle's methods in one session.
MaxCmds == 2
\* Largest number of rows a statement or a table yields server-side.
MaxRows == 1002
\* Longest schema or table name drawn from the identifier alphabet.
MaxIdentLen == 3

\* ------------------------------------------------------- program constants
ROW_LIMIT == 1000
PREVIEW_LIMIT == 50

\* Inputs the consumer draws its arguments from.
Schemas == {"public", "audit"}
Tables == {"orders"}
SqlTexts == {"select 1"}

Impls == {"lib", "ui"}

VARIABLES
    impl,          \* which spawn_session was called
    wpc,           \* worker thread: position in run_worker
    spc,           \* supervisor thread: position in its closure
    ready,         \* handshake channel: "empty" | "sent" | "taken" | "closed"
    readyRx,       \* TRUE while the supervisor still owns ready_rx
    cmdq,          \* command queue (unbounded_channel), oldest first
    cmdRx,         \* TRUE while command_rx exists (worker has not left the block)
    events,        \* every event placed on the event channel, in order
    handle,        \* DbSessionHandle: "none" | "in_event" | "held" | "dropping" | "dropped"
    sent,          \* every command passed to commands.send, in call order
    refused,       \* ids of commands whose send returned Err (receiver gone)
    cur,           \* the command the loop dequeued last (NoCmd before the first)
    inflight,      \* ids of commands whose adapter call has started and not returned
    calls,         \* adapter / driver operations invoked, in order, with the calling thread
    adapter,       \* PostgresAdapter fields: client held, disconnecting flag ("lib")
    client,        \* the Client owned by process_commands ("ui")
    conn,          \* the connection future: "none" | "alive" | "closed_ok" | "closed_err"
    monitor,       \* monitor task: "none" | "waiting" | "done" | "cancelled"
    closedTx,      \* oneshot connection_closed channel ("ui"): "none" | "open" | "sent"
    joinHandle,    \* the worker's JoinHandle: "supervisor" | "handle" | "joining" | "joined"
    tableRows,     \* rows the statement or the table yields server-side
    request,       \* the adapter call made: operation and limit
    statement,     \* the statement the call sent to the server
    result,        \* the QueryResult the call returned
    arg,           \* the argument of a helper function taken by itself
    ret,           \* what that function returned
    eventRx,       \* TRUE while the consumer's receiver of the event channel exists
    app,           \* DbMiruApp: the fields of the UI that the event handler writes
    workers,       \* one record per spawn_session call of the application
    eventq,        \* events waiting in the application's event channel, oldest first
    input          \* TextInput: content, selected_range, marked_range

vars == <<impl, wpc, spc, ready, readyRx, cmdq, cmdRx, events, handle, sent,
          refused, cur, inflight, calls, adapter, client, conn, monitor, closedTx,
          joinHandle, tableRows, request, statement, result, arg, ret, eventRx,
          app, workers, eventq, input>>

sessionVars == <<impl, wpc, spc, ready, readyRx, cmdq, cmdRx, events, handle, sent,
                 refused, cur, inflight, calls, adapter, client, conn, monitor,
                 closedTx, joinHandle>>

\* Variable groups, for UNCHANGED.
consumerVars == <<handle, sent, refused, joinHandle>>
superVars == <<spc, readyRx>>
dbVars == <<adapter, client, conn, monitor, closedTx>>
loopVars == <<cur, inflight>>
\* One adapter call taken by itself: its input and what it returns.
queryVars == <<tableRows, request, statement, result>>
\* One helper function taken by itself: its argument and its return value.
pureVars == <<arg, ret>>
\* The receiving end of the event channel, the application that owns it and
\* one of its text inputs.
appVars == <<app, workers, eventq>>
restVars == <<eventRx, appVars, input>>
\* Everything a session leaves alone.
otherVars == <<queryVars, pureVars, restVars>>

\* ------------------------------------------------------------- DbCommand
CommandKinds ==
    {"Execute", "FetchSchemas", "FetchTables", "FetchColumns", "PreviewTable", "Disconnect"}

DbCommand(kind, id, sql, schema, table, limit) ==
    [kind |-> kind, id |-> id, sql |-> sql, schema |-> schema, table |-> table,
     limit |-> limit]

NoCmd == DbCommand("None", 0, "", "", "", 0)

\* --------------------------------------------------------------- DbEvent
\* cmd is the id of the command the event answers (0: not a command result);
\* msg is the message / reason text ("" when the variant carries none);
\* some distinguishes ConnectionClosed(Some(reason)) from ConnectionClosed(None).
DbEvent(kind, cmd, schema, table, msg, some) ==
    [kind |-> kind, cmd |-> cmd, schema |-> schema, table |-> table, msg |-> msg,
     some |-> some]

\* event_tx.send(..).await / send_blocking(..) on the unbounded event channel:
\* Err(SendError) once the receiver is gone, discarded by `let _ =`.
Emit(ev) == IF eventRx THEN Append(events, ev) ELSE events

\* A record of one adapter (or driver) operation and the thread that made it.
Call(op, by, id) == [op |-> op, by |-> by, cmd |-> id]

\* ---------------------------------------------------------- error texts
ERR_NOT_CONNECTED == "Database client is not connected."
ERR_DB == "db error"
ERR_CLOSED == "connection closed"
MSG_WORKER_FAILED == "Failed to connect to database worker."
MSG_WORKER_INIT == "Failed to initialize connection worker."

\* classify_connection_error applied to the errors a connect attempt is
\* drawn from here; the summary is what the ConnectionFailed event carries.
ConnectErrors == {"invalid_password", "connection refused"}

ConnectSummary(err) ==
    IF err = "invalid_password" THEN "Password authentication failed."
    ELSE "Unable to reach the database host (connection refused)."

\* ------------------------------------------- one adapter call by itself
\* Before any call: nothing requested, nothing sent, nothing returned.
\* A statement is its text and, for the server, the value of its limit
\* clause: <<k>> for "limit k", <<>> when the text has none.
NoRequest == [op |-> "none", sql |-> "", schema |-> "", table |-> "", limit |-> 0]
NoStatement == [text |-> "", limit |-> <<>>]
NoResult == [columns |-> <<>>, rows |-> <<>>, row_count |-> 0, truncated |-> FALSE]

\* ------------------------------------------ one helper function by itself
\* Before the function is applied: no argument chosen, nothing returned.
NoArg == [fn |-> "none"]
NoRet == [fn |-> "none"]

\* No adapter call and no helper function is under way.
QueryIdle ==
    /\ tableRows = 0
    /\ request = NoRequest
    /\ statement = NoStatement
    /\ result = NoResult

PureIdle ==
    /\ arg = NoArg
    /\ ret = NoRet

\* --------------------------------------------- the consumer's side at rest
\* No application and no text input is looked at.
NoApp == [status |-> "none"]
NoInput == [content |-> "none"]

\* The receiver of the event channel is alive (src/src/main.rs:72 keeps it).
ReceiverOpen == eventRx = TRUE
AppIdle == app = NoApp /\ workers = <<>> /\ eventq = <<>>
InputIdle == input = NoInput
RestIdle == ReceiverOpen /\ AppIdle /\ InputIdle

\* ------------------------------------------------------------------ Init
\* A session right after spawn_session was called.
SessionInit ==
    /\ impl \in Impls
    /\ wpc = "initializing"
    /\ spc = "recv"
    /\ ready = "empty"
    /\ readyRx = TRUE
    /\ cmdq = <<>>
    /\ cmdRx = FALSE
    /\ events = <<>>
    /\ handle = "none"
    /\ sent = <<>>
    /\ refused = {}
    /\ cur = NoCmd
    /\ inflight = {}
    /\ calls = <<>>
    /\ adapter = [client |-> FALSE, disconnecting |-> FALSE]
    /\ client = FALSE
    /\ conn = "none"
    /\ monitor = "none"
    /\ closedTx = "none"
    /\ joinHandle = "supervisor"

Init ==
    /\ SessionInit
    /\ QueryIdle
    /\ PureIdle
    /\ RestIdle


\* ======================================================================
\* PostgresAdapter (src/db/src/postgres.rs)
\* ======================================================================
PostgresAdapter_new == [client |-> FALSE, disconnecting |-> FALSE]

\* connect(), success path: self.client = Some(client).
PostgresAdapter_connect(a) == [a EXCEPT !.client = TRUE]

\* Variant of disconnect() that takes the client before storing the flag.
PostgresAdapter_disconnect_steps_ClientFirst(a) ==
    LET a1 == [a EXCEPT !.client = FALSE]
        a2 == [a1 EXCEPT !.disconnecting = TRUE]
    IN  <<a1, a2>>

\* disconnect(): the adapter after each of its two statements, in program
\* order: self.disconnecting.store(true), then self.client.take().
PostgresAdapter_disconnect_steps(a) ==
    LET a1 == [a EXCEPT !.disconnecting = TRUE]
        a2 == [a1 EXCEPT !.client = FALSE]
    IN  <<a1, a2>>

\* Variant of disconnect() that takes the client and leaves the flag alone.
PostgresAdapter_disconnect_KeepsFlag(a) == [a EXCEPT !.client = FALSE]

\* Variant of disconnect() that flips the flag instead of storing true.
PostgresAdapter_disconnect_Toggles(a) ==
    [a EXCEPT !.disconnecting = ~a.disconnecting, !.client = FALSE]

\* disconnect(): store the flag, then take (drop) the client.
PostgresAdapter_disconnect(a) ==
    PostgresAdapter_disconnect_steps(a)[Len(PostgresAdapter_disconnect_steps(a))]

\* Dropping the Client lets a live connection future complete with Ok(()).
ClientDropped(c) == IF c = "alive" THEN "closed_ok" ELSE c

Ok == [ok |-> TRUE, err |-> ""]
Err(text) == [ok |-> FALSE, err |-> text]

\* What a statement sent over the connection can return: a live connection
\* answers with rows or with a server error, a terminated one with an error.
QueryOutcomes(c) == IF c = "alive" THEN {Ok, Err(ERR_DB)} ELSE {Err(ERR_CLOSED)}

\* Variant of the adapter operations that goes to the connection without
\* looking at the client field.
AdapterOutcomes_Unchecked(a, c) == QueryOutcomes(c)

\* execute / fetch_* / preview_table of the adapter: self.client()? first.
AdapterOutcomes(a, c) == IF a.client THEN QueryOutcomes(c) ELSE {Err(ERR_NOT_CONNECTED)}

\* Variant of the monitor future that never reports a reason.
MonitorReason_NeverSome(a, c) == [some |-> FALSE, text |-> ""]

\* The monitor future built in connect(): None when the flag is set, else
\* the error text of the connection's outcome.
MonitorReason(a, c) ==
    IF a.disconnecting THEN [some |-> FALSE, text |-> ""]
    ELSE IF c = "closed_err" THEN [some |-> TRUE, text |-> ERR_CLOSED]
    ELSE [some |-> FALSE, text |-> ""]

\* The monitor task of the UI worker: outcome.err().map(to_string), no flag.
Ui_MonitorReason(c) ==
    IF c = "closed_err" THEN [some |-> TRUE, text |-> ERR_CLOSED]
    ELSE [some |-> FALSE, text |-> ""]

\* ======================================================================
\* Events of the command table
\* ======================================================================
ConnectedEvent == DbEvent("Connected", 0, "", "", "", FALSE)
ConnectionFailedEvent(summary) == DbEvent("ConnectionFailed", 0, "", "", summary, FALSE)
ConnectionClosedEvent(reason) ==
    DbEvent("ConnectionClosed", 0, "", "", reason.text, reason.some)

\* Variant that sends the success events without their schema and table.
Lib_ResultEvent_NoPayload(c, r) ==
    IF r.ok
    THEN DbEvent(CASE c.kind = "Execute" -> "QueryFinished"
                   [] c.kind = "FetchSchemas" -> "SchemasLoaded"
                   [] c.kind = "FetchTables" -> "TablesLoaded"
                   [] c.kind = "FetchColumns" -> "ColumnsLoaded"
                   [] c.kind = "PreviewTable" -> "TablePreviewReady",
                 c.id, "", "", "", FALSE)
    ELSE DbEvent(IF c.kind = "Execute" THEN "QueryFailed" ELSE "MetadataFailed",
                 c.id, "", "", r.err, FALSE)

\* Variant that labels a failed query the way the metadata failures are
\* labelled, with a prefix naming the command.
Lib_ResultEvent_PrefixesQuery(c, r) ==
    IF r.ok
    THEN DbEvent(CASE c.kind = "Execute" -> "QueryFinished"
                   [] c.kind = "FetchSchemas" -> "SchemasLoaded"
                   [] c.kind = "FetchTables" -> "TablesLoaded"
                   [] c.kind = "FetchColumns" -> "ColumnsLoaded"
                   [] c.kind = "PreviewTable" -> "TablePreviewReady",
                 c.id,
                 IF c.kind \in {"FetchTables", "FetchColumns", "PreviewTable"}
                 THEN c.schema ELSE "",
                 IF c.kind \in {"FetchColumns", "PreviewTable"} THEN c.table ELSE "",
                 "", FALSE)
    ELSE DbEvent(IF c.kind = "Execute" THEN "QueryFailed" ELSE "MetadataFailed",
                 c.id, "", "",
                 (CASE c.kind = "Execute" -> "Failed to run query: "
                    [] c.kind = "FetchSchemas" -> "Failed to load schemas: "
                    [] c.kind = "FetchTables" -> "Failed to load tables: "
                    [] c.kind = "FetchColumns" -> "Failed to load columns: "
                    [] c.kind = "PreviewTable" -> "Failed to preview table: ")
                 \o r.err, FALSE)

\* process_commands of the adapter-based worker: one event per command.
Lib_ResultEvent(c, r) ==
    CASE c.kind = "Execute" ->
            IF r.ok THEN DbEvent("QueryFinished", c.id, "", "", "", FALSE)
            ELSE DbEvent("QueryFailed", c.id, "", "", r.err, FALSE)
      [] c.kind = "FetchSchemas" ->
            IF r.ok THEN DbEvent("SchemasLoaded", c.id, "", "", "", FALSE)
            ELSE DbEvent("MetadataFailed", c.id, "", "",
                         "Failed to load schemas: " \o r.err, FALSE)
      [] c.kind = "FetchTables" ->
            IF r.ok THEN DbEvent("TablesLoaded", c.id, c.schema, "", "", FALSE)
            ELSE DbEvent("MetadataFailed", c.id, "", "",
                         "Failed to load tables: " \o r.err, FALSE)
      [] c.kind = "FetchColumns" ->
            IF r.ok THEN DbEvent("ColumnsLoaded", c.id, c.schema, c.table, "", FALSE)
            ELSE DbEvent("MetadataFailed", c.id, "", "",
                         "Failed to load columns: " \o r.err, FALSE)
      [] c.kind = "PreviewTable" ->
            IF r.ok THEN DbEvent("TablePreviewReady", c.id, c.schema, c.table, "", FALSE)
            ELSE DbEvent("MetadataFailed", c.id, "", "",
                         "Failed to preview table: " \o r.err, FALSE)

\* execute_query, load_schemas, load_tables, load_columns, preview_table of
\* the UI worker: each sends its own event.
Ui_ResultEvent(c, r) ==
    CASE c.kind = "Execute" ->
            IF r.ok THEN DbEvent("QueryFinished", c.id, "", "", "", FALSE)
            ELSE DbEvent("QueryFailed", c.id, "", "", r.err, FALSE)
      [] c.kind = "FetchSchemas" ->
            IF r.ok THEN DbEvent("SchemasLoaded", c.id, "", "", "", FALSE)
            ELSE DbEvent("MetadataFailed", c.id, "", "",
                         "Failed to load schemas: " \o r.err, FALSE)
      [] c.kind = "FetchTables" ->
            IF r.ok THEN DbEvent("TablesLoaded", c.id, c.schema, "", "", FALSE)
            ELSE DbEvent("MetadataFailed", c.id, "", "",
                         "Failed to load tables: " \o r.err, FALSE)
      [] c.kind = "FetchColumns" ->
            IF r.ok THEN DbEvent("ColumnsLoaded", c.id, c.schema, c.table, "", FALSE)
            ELSE DbEvent("MetadataFailed", c.id, "", "",
                         "Failed to load columns: " \o r.err, FALSE)
      [] c.kind = "PreviewTable" ->
            IF r.ok THEN DbEvent("TablePreviewReady", c.id, c.schema, c.table, "", FALSE)
            ELSE DbEvent("MetadataFailed", c.id, "", "",
                         "Failed to preview table: " \o r.err, FALSE)

\* The adapter operation a command is mapped onto.
AdapterOp(kind) ==
    CASE kind = "Execute" -> "execute"
      [] kind = "FetchSchemas" -> "fetch_schemas"
      [] kind = "FetchTables" -> "fetch_tables"
      [] kind = "FetchColumns" -> "fetch_columns"
      [] kind = "PreviewTable" -> "preview_table"
      [] kind = "Disconnect" -> "disconnect"


\* ======================================================================
\* Command loop helpers (shared shape of both process_commands)
\* ======================================================================
\* Variant that polls recv() again while an adapter call is still pending.
LoopAtRecv_DuringCall(pc) == pc \in {"running", "in_call"}

\* `while let Some(command) = command_rx.recv().await`: the next command is
\* taken only at the top of the loop, after the previous arm has finished.
LoopAtRecv(pc) == pc = "running"

\* Variant that takes the newest queued command.
Dequeued_Newest(q) == [cmd |-> q[Len(q)], rest |-> SubSeq(q, 1, Len(q) - 1)]

\* recv() yields the oldest queued command.
Dequeued(q) == [cmd |-> Head(q), rest |-> Tail(q)]

\* DbCommand::Disconnect is the one arm that breaks out of the loop.
LoopBreaks(c) == c.kind = "Disconnect"

\* Variant in which the Disconnect arm does not break.
LoopAfterDisconnect_Continues == "running"

\* ... and the loop is left for the code after process_commands.
LoopAfterDisconnect == "disconnecting"

\* Variant that leaves the loop once an operation reports the connection closed.
LoopAfterResult_StopsWhenClosed(r) ==
    IF ~r.ok /\ r.err = ERR_CLOSED THEN "disconnecting" ELSE "running"

\* Variant that reconnects after a failed command.
LoopAfterResult_Reconnects(r) == IF r.ok THEN "running" ELSE "connecting"

\* Variant that leaves the loop after a failed command.
LoopAfterResult_StopsOnError(r) == IF r.ok THEN "running" ELSE "disconnecting"

\* Every other arm, Ok or Err, falls through to the next iteration.
LoopAfterResult(r) == "running"

\* Variant that tries the connection again after a failed connect.
AfterConnect_Retries(ok) == IF ok THEN "ready" ELSE "connecting"

\* Variant that goes on to the handshake whatever connect returned.
AfterConnect_IgnoresError(ok) == "ready"

\* The worker's position after connect returned.
AfterConnect(ok) == IF ok THEN "ready" ELSE "connect_failed"

\* Variant in which the monitor task waits for the connection again.
MonitorAfterSend_WaitsAgain == "waiting"

\* The monitor task is one async block: once it has sent ConnectionClosed
\* its future is complete and the task is gone.
MonitorAfterSend == "done"

\* Points at which the worker's runtime can poll the spawned monitor task:
\* while the block_on future is pending in recv() or inside an adapter call.
Lib_MonitorCanRun(pc) == pc \in {"running", "in_call"}

\* Variant in which the task is polled only while the loop runs.
Ui_MonitorCanRun_LoopOnly(pc) == pc \in {"running", "in_call"}

\* The UI worker also awaits connection_closed_rx after the loop.
Ui_MonitorCanRun(pc) == pc \in {"running", "in_call", "disconnecting"}

\* ======================================================================
\* Adapter-based worker thread: run_worker of src/db/src/lib.rs
\* ======================================================================
\* tokio::runtime::Builder::build()?  -- Err leaves run_worker at once,
\* dropping ready_tx; Ok enters the block and creates the command channel.
Lib_BuildRuntime ==
    /\ impl = "lib" /\ wpc = "initializing"
    /\ \E ok \in BOOLEAN :
         IF ok
         THEN /\ wpc' = "connecting"
              /\ cmdRx' = TRUE
              /\ ready' = ready
         ELSE /\ wpc' = "report_failure"
              /\ cmdRx' = cmdRx
              /\ ready' = "closed"
    /\ UNCHANGED <<impl, cmdq, events, calls>>
    /\ UNCHANGED <<consumerVars, superVars, dbVars, loopVars>>
    /\ UNCHANGED otherVars

\* The thread closure of spawn_session: run_worker returned Err.
Lib_ReportFailure ==
    /\ impl = "lib" /\ wpc = "report_failure"
    /\ events' = Emit(ConnectionFailedEvent(MSG_WORKER_FAILED))
    /\ wpc' = "terminated"
    /\ UNCHANGED <<impl, ready, cmdq, cmdRx, calls>>
    /\ UNCHANGED <<consumerVars, superVars, dbVars, loopVars>>
    /\ UNCHANGED otherVars

\* adapter.connect().await and the match on its result.
Lib_Connect ==
    /\ impl = "lib" /\ wpc = "connecting"
    /\ calls' = Append(calls, Call("connect", "worker", 0))
    /\ \E r \in {"ok"} \cup ConnectErrors :
         /\ wpc' = AfterConnect(r = "ok")
         /\ IF r = "ok"
            THEN /\ adapter' = PostgresAdapter_connect(adapter)
                 /\ conn' = "alive"
                 /\ events' = events
            ELSE /\ adapter' = adapter
                 /\ conn' = conn
                 /\ events' = Emit(ConnectionFailedEvent(ConnectSummary(r)))
    /\ UNCHANGED <<impl, ready, cmdq, cmdRx, client, monitor, closedTx>>
    /\ UNCHANGED <<consumerVars, superVars, loopVars>>
    /\ UNCHANGED otherVars

\* `return Ok(())` after a failed connect: the block's locals (ready_tx,
\* command_rx, the adapter) are dropped and the thread ends.
Lib_ConnectFailedExit ==
    /\ impl = "lib" /\ wpc = "connect_failed"
    /\ ready' = IF ready = "empty" THEN "closed" ELSE ready
    /\ cmdRx' = FALSE
    /\ wpc' = "terminated"
    /\ UNCHANGED <<impl, cmdq, events, calls>>
    /\ UNCHANGED <<consumerVars, superVars, dbVars, loopVars>>
    /\ UNCHANGED otherVars

\* ready_tx.send(command_tx), then spawn_connection_monitor.
Lib_SendReady ==
    /\ impl = "lib" /\ wpc = "ready"
    /\ IF readyRx
       THEN /\ ready' = "sent"
            /\ monitor' = "waiting"
            /\ wpc' = "running"
            /\ UNCHANGED <<adapter, conn, calls, cmdRx>>
       ELSE /\ adapter' = PostgresAdapter_disconnect(adapter)
            /\ conn' = ClientDropped(conn)
            /\ calls' = Append(calls, Call("disconnect", "worker", 0))
            /\ cmdRx' = FALSE
            /\ wpc' = "terminated"
            /\ UNCHANGED <<ready, monitor>>
    /\ UNCHANGED <<impl, cmdq, events, client, closedTx>>
    /\ UNCHANGED <<consumerVars, superVars, loopVars>>
    /\ UNCHANGED otherVars

\* One pass through the top of the loop of process_commands: recv() and the
\* start of the matching arm. Disconnect runs adapter.disconnect() and breaks;
\* recv() = None (every sender gone, queue empty) leaves the loop as well.
Lib_Dequeue ==
    /\ impl = "lib" /\ LoopAtRecv(wpc)
    /\ cmdq # <<>> \/ handle = "dropped"
    /\ IF cmdq = <<>>
       THEN /\ wpc' = "disconnecting"
            /\ UNCHANGED <<cmdq, cur, inflight, calls, adapter, conn>>
       ELSE LET c == Dequeued(cmdq).cmd IN
            /\ cmdq' = Dequeued(cmdq).rest
            /\ cur' = c
            /\ calls' = Append(calls, Call(AdapterOp(c.kind), "worker", c.id))
            /\ IF LoopBreaks(c)
               THEN /\ adapter' = PostgresAdapter_disconnect(adapter)
                    /\ conn' = ClientDropped(conn)
                    /\ inflight' = inflight
                    /\ wpc' = LoopAfterDisconnect
               ELSE /\ inflight' = inflight \cup {c.id}
                    /\ wpc' = "in_call"
                    /\ UNCHANGED <<adapter, conn>>
    /\ UNCHANGED <<impl, ready, cmdRx, events, client, monitor, closedTx>>
    /\ UNCHANGED <<consumerVars, superVars>>
    /\ UNCHANGED otherVars

\* The adapter call of the current command returns and its event is sent.
Lib_CallReturn ==
    /\ impl = "lib" /\ wpc = "in_call"
    /\ \E r \in AdapterOutcomes(adapter, conn) :
         /\ events' = Emit(Lib_ResultEvent(cur, r))
         /\ wpc' = LoopAfterResult(r)
    /\ inflight' = inflight \ {cur.id}
    /\ UNCHANGED <<impl, ready, cmdq, cmdRx, cur, calls>>
    /\ UNCHANGED <<consumerVars, superVars, dbVars>>
    /\ UNCHANGED otherVars

\* After process_commands: adapter.disconnect().await, Ok(()), the block and
\* the runtime are dropped (a monitor task that never completed goes with it).
Lib_Teardown ==
    /\ impl = "lib" /\ wpc = "disconnecting"
    /\ adapter' = PostgresAdapter_disconnect(adapter)
    /\ conn' = ClientDropped(conn)
    /\ calls' = Append(calls, Call("disconnect", "worker", 0))
    /\ monitor' = IF monitor = "waiting" THEN "cancelled" ELSE monitor
    /\ cmdRx' = FALSE
    /\ wpc' = "terminated"
    /\ UNCHANGED <<impl, ready, cmdq, events, client, closedTx>>
    /\ UNCHANGED <<consumerVars, superVars, loopVars>>
    /\ UNCHANGED otherVars

\* spawn_connection_monitor: the task resumes once the connection future
\* has completed, and sends ConnectionClosed(reason).
Lib_Monitor ==
    /\ impl = "lib" /\ monitor = "waiting"
    /\ Lib_MonitorCanRun(wpc)
    /\ conn \in {"closed_ok", "closed_err"}
    /\ events' = Emit(ConnectionClosedEvent(MonitorReason(adapter, conn)))
    /\ monitor' = MonitorAfterSend
    /\ UNCHANGED <<impl, wpc, ready, cmdq, cmdRx, calls, adapter, client, conn, closedTx>>
    /\ UNCHANGED <<consumerVars, superVars, loopVars>>
    /\ UNCHANGED otherVars


\* ======================================================================
\* UI-embedded worker thread: run_worker of src/src/db.rs
\* ======================================================================
Ui_BuildRuntime ==
    /\ impl = "ui" /\ wpc = "initializing"
    /\ \E ok \in BOOLEAN :
         IF ok
         THEN /\ wpc' = "connecting"
              /\ ready' = ready
         ELSE /\ wpc' = "report_failure"
              /\ ready' = "closed"
    /\ UNCHANGED <<impl, cmdq, cmdRx, events, calls>>
    /\ UNCHANGED <<consumerVars, superVars, dbVars, loopVars>>
    /\ UNCHANGED otherVars

\* The thread closure of spawn_session: run_worker returned Err.
Ui_ReportFailure ==
    /\ impl = "ui" /\ wpc = "report_failure"
    /\ events' = Emit(ConnectionFailedEvent(MSG_WORKER_FAILED))
    /\ wpc' = "terminated"
    /\ UNCHANGED <<impl, ready, cmdq, cmdRx, calls>>
    /\ UNCHANGED <<consumerVars, superVars, dbVars, loopVars>>
    /\ UNCHANGED otherVars

\* config.connect(NoTls).await; on Err the classified failure is sent.
Ui_Connect ==
    /\ impl = "ui" /\ wpc = "connecting"
    /\ calls' = Append(calls, Call("connect", "worker", 0))
    /\ \E r \in {"ok"} \cup ConnectErrors :
         /\ wpc' = AfterConnect(r = "ok")
         /\ IF r = "ok"
            THEN /\ client' = TRUE
                 /\ conn' = "alive"
                 /\ events' = events
            ELSE /\ client' = client
                 /\ conn' = conn
                 /\ events' = Emit(ConnectionFailedEvent(ConnectSummary(r)))
    /\ UNCHANGED <<impl, ready, cmdq, cmdRx, adapter, monitor, closedTx>>
    /\ UNCHANGED <<consumerVars, superVars, loopVars>>
    /\ UNCHANGED otherVars

\* `return Err(err.into())`: the block ends with Err, `?` makes run_worker
\* return Err, ready_tx is dropped on the way out.
Ui_ConnectFailedExit ==
    /\ impl = "ui" /\ wpc = "connect_failed"
    /\ ready' = IF ready = "empty" THEN "closed" ELSE ready
    /\ wpc' = "report_failure"
    /\ UNCHANGED <<impl, cmdq, cmdRx, events, calls>>
    /\ UNCHANGED <<consumerVars, superVars, dbVars, loopVars>>
    /\ UNCHANGED otherVars

\* unbounded_channel(), ready_tx.send(command_tx), the oneshot channel and
\* the spawned monitor task.
Ui_SendReady ==
    /\ impl = "ui" /\ wpc = "ready"
    /\ IF readyRx
       THEN /\ ready' = "sent"
            /\ cmdRx' = TRUE
            /\ closedTx' = "open"
            /\ monitor' = "waiting"
            /\ wpc' = "running"
            /\ UNCHANGED <<client, conn>>
       ELSE /\ client' = FALSE
            /\ conn' = ClientDropped(conn)
            /\ wpc' = "terminated"
            /\ UNCHANGED <<ready, cmdRx, closedTx, monitor>>
    /\ UNCHANGED <<impl, cmdq, events, calls, adapter>>
    /\ UNCHANGED <<consumerVars, superVars, loopVars>>
    /\ UNCHANGED otherVars

\* Top of the loop of process_commands. Leaving the loop returns from
\* process_commands, which drops the Client it owns.
Ui_Dequeue ==
    /\ impl = "ui" /\ LoopAtRecv(wpc)
    /\ cmdq # <<>> \/ handle = "dropped"
    /\ IF cmdq = <<>>
       THEN /\ wpc' = "disconnecting"
            /\ client' = FALSE
            /\ conn' = ClientDropped(conn)
            /\ UNCHANGED <<cmdq, cur, inflight, calls>>
       ELSE LET c == Dequeued(cmdq).cmd IN
            /\ cmdq' = Dequeued(cmdq).rest
            /\ cur' = c
            /\ IF LoopBreaks(c)
               THEN /\ client' = FALSE
                    /\ conn' = ClientDropped(conn)
                    /\ wpc' = LoopAfterDisconnect
                    /\ UNCHANGED <<inflight, calls>>
               ELSE /\ inflight' = inflight \cup {c.id}
                    /\ calls' = Append(calls, Call(AdapterOp(c.kind), "worker", c.id))
                    /\ wpc' = "in_call"
                    /\ UNCHANGED <<client, conn>>
    /\ UNCHANGED <<impl, ready, cmdRx, events, adapter, monitor, closedTx>>
    /\ UNCHANGED <<consumerVars, superVars>>
    /\ UNCHANGED otherVars

\* client.query(..).await returns inside execute_query / load_* /
\* preview_table, which sends the event.
Ui_CallReturn ==
    /\ impl = "ui" /\ wpc = "in_call"
    /\ \E r \in QueryOutcomes(conn) :
         /\ events' = Emit(Ui_ResultEvent(cur, r))
         /\ wpc' = LoopAfterResult(r)
    /\ inflight' = inflight \ {cur.id}
    /\ UNCHANGED <<impl, ready, cmdq, cmdRx, cur, calls>>
    /\ UNCHANGED <<consumerVars, superVars, dbVars>>
    /\ UNCHANGED otherVars

\* The spawned task: connection.await, report on the oneshot channel, send
\* ConnectionClosed(reason).
Ui_Monitor ==
    /\ impl = "ui" /\ monitor = "waiting"
    /\ Ui_MonitorCanRun(wpc)
    /\ conn \in {"closed_ok", "closed_err"}
    /\ closedTx' = "sent"
    /\ events' = Emit(ConnectionClosedEvent(Ui_MonitorReason(conn)))
    /\ monitor' = MonitorAfterSend
    /\ UNCHANGED <<impl, wpc, ready, cmdq, cmdRx, calls, adapter, client, conn>>
    /\ UNCHANGED <<consumerVars, superVars, loopVars>>
    /\ UNCHANGED otherVars

\* `let _ = connection_closed_rx.await; Ok(())`: the block and the thread end.
Ui_Finish ==
    /\ impl = "ui" /\ wpc = "disconnecting"
    /\ closedTx = "sent"
    /\ cmdRx' = FALSE
    /\ wpc' = "terminated"
    /\ UNCHANGED <<impl, ready, cmdq, events, calls>>
    /\ UNCHANGED <<consumerVars, superVars, dbVars, loopVars>>
    /\ UNCHANGED otherVars

\* ======================================================================
\* Supervisor (handshake) thread of spawn_session
\* ======================================================================
\* Variant of join() that returns without waiting for the thread.
JoinReturns_Detached(pc) == TRUE

\* JoinHandle::join() blocks until the worker thread's closure has returned.
JoinReturns(pc) == pc = "terminated"

\* Variant in which the returned event is leaked instead of dropped.
HandleAfterSend_Leaks(delivered) == IF delivered THEN "in_event" ELSE "none"

\* The DbSessionHandle travels inside the Connected event. A failed send
\* returns the event in its SendError, `let _ =` drops it and with it the
\* handle: Drop for DbSessionHandle runs on the supervisor thread.
HandleAfterSend(delivered) == IF delivered THEN "in_event" ELSE "dropping"

\* What the handshake arm does with the handle h it has built: for a handle
\* dropped on the spot, drop() sends Disconnect and starts the join.
SendConnected(h) ==
    /\ handle' = h
    /\ events' = Emit(ConnectedEvent)
    /\ IF h = "dropping"
       THEN LET cmd == DbCommand("Disconnect", Len(sent) + 1, "", "", "", 0) IN
            /\ sent' = Append(sent, cmd)
            /\ IF cmdRx
               THEN cmdq' = Append(cmdq, cmd) /\ refused' = refused
               ELSE cmdq' = cmdq /\ refused' = refused \cup {cmd.id}
            /\ joinHandle' = "joining"
       ELSE /\ joinHandle' = "handle"
            /\ UNCHANGED <<sent, cmdq, refused>>

\* Ok(command_tx): build the handle around the join handle, send Connected.
Lib_SupervisorReady ==
    /\ impl = "lib" /\ spc = "recv" /\ ready = "sent"
    /\ ready' = "taken"
    /\ SendConnected(HandleAfterSend(eventRx))
    /\ spc' = "done"
    /\ readyRx' = FALSE
    /\ UNCHANGED <<impl, wpc, cmdRx, calls>>
    /\ UNCHANGED <<dbVars, loopVars>>
    /\ UNCHANGED otherVars

\* Variant of the Err(_) arm that reports the closed handshake itself.
Lib_SupervisorClosed_Reports ==
    /\ impl = "lib" /\ spc = "recv" /\ ready = "closed"
    /\ events' = Emit(ConnectionFailedEvent(MSG_WORKER_INIT))
    /\ spc' = "joining"
    /\ joinHandle' = "joining"
    /\ readyRx' = FALSE
    /\ UNCHANGED <<impl, wpc, ready, cmdq, cmdRx, calls, handle, sent, refused>>
    /\ UNCHANGED <<dbVars, loopVars>>
    /\ UNCHANGED otherVars

\* Err(_): the channel closed with nothing in it; only join the worker.
Lib_SupervisorClosed ==
    /\ impl = "lib" /\ spc = "recv" /\ ready = "closed"
    /\ spc' = "joining"
    /\ joinHandle' = "joining"
    /\ readyRx' = FALSE
    /\ UNCHANGED <<impl, wpc, ready, cmdq, cmdRx, events, calls, handle, sent, refused>>
    /\ UNCHANGED <<dbVars, loopVars>>
    /\ UNCHANGED otherVars

Ui_SupervisorReady ==
    /\ impl = "ui" /\ spc = "recv" /\ ready = "sent"
    /\ ready' = "taken"
    /\ SendConnected(HandleAfterSend(eventRx))
    /\ spc' = "done"
    /\ readyRx' = FALSE
    /\ UNCHANGED <<impl, wpc, cmdRx, calls>>
    /\ UNCHANGED <<dbVars, loopVars>>
    /\ UNCHANGED otherVars

\* Err(_) in the UI worker's supervisor: send ConnectionFailed, then join.
Ui_SupervisorClosed ==
    /\ impl = "ui" /\ spc = "recv" /\ ready = "closed"
    /\ events' = Emit(ConnectionFailedEvent(MSG_WORKER_INIT))
    /\ spc' = "joining"
    /\ joinHandle' = "joining"
    /\ readyRx' = FALSE
    /\ UNCHANGED <<impl, wpc, ready, cmdq, cmdRx, calls, handle, sent, refused>>
    /\ UNCHANGED <<dbVars, loopVars>>
    /\ UNCHANGED otherVars

\* join_handle.join() returns once the worker thread has ended.
SupervisorJoin ==
    /\ spc = "joining" /\ JoinReturns(wpc)
    /\ spc' = "done"
    /\ joinHandle' = "joined"
    /\ UNCHANGED <<impl, wpc, ready, readyRx, cmdq, cmdRx, events, calls, handle,
                   sent, refused>>
    /\ UNCHANGED <<dbVars, loopVars>>
    /\ UNCHANGED otherVars


\* ======================================================================
\* Consumer: the owner of the DbSessionHandle
\* ======================================================================
\* The consumer polls the event channel and keeps the handle that the
\* Connected event carries.
Consumer_TakeHandle ==
    /\ handle = "in_event" /\ eventRx
    /\ handle' = "held"
    /\ UNCHANGED <<impl, wpc, ready, cmdq, cmdRx, events, sent, refused, calls,
                   joinHandle>>
    /\ UNCHANGED <<superVars, dbVars, loopVars>>
    /\ UNCHANGED otherVars

\* Commands are numbered in the order the handle sends them.
NextId == Len(sent) + 1

\* `let _ = self.commands.send(cmd)`: the command is queued while the
\* receiver exists; otherwise send returns Err, which is discarded.
HandleSend(cmd) ==
    /\ sent' = Append(sent, cmd)
    /\ IF cmdRx
       THEN /\ cmdq' = Append(cmdq, cmd)
            /\ refused' = refused
       ELSE /\ cmdq' = cmdq
            /\ refused' = refused \cup {cmd.id}
    /\ UNCHANGED <<impl, wpc, ready, cmdRx, events, calls>>
    /\ UNCHANGED <<superVars, dbVars, loopVars>>
    /\ UNCHANGED otherVars

Handle_execute ==
    /\ handle = "held" /\ Len(sent) < MaxCmds
    /\ \E sql \in SqlTexts :
         HandleSend(DbCommand("Execute", NextId, sql, "", "", ROW_LIMIT))
    /\ handle' = handle
    /\ joinHandle' = joinHandle

Handle_load_schemas ==
    /\ handle = "held" /\ Len(sent) < MaxCmds
    /\ HandleSend(DbCommand("FetchSchemas", NextId, "", "", "", 0))
    /\ handle' = handle
    /\ joinHandle' = joinHandle

Handle_load_tables ==
    /\ handle = "held" /\ Len(sent) < MaxCmds
    /\ \E s \in Schemas :
         HandleSend(DbCommand("FetchTables", NextId, "", s, "", 0))
    /\ handle' = handle
    /\ joinHandle' = joinHandle

Handle_load_columns ==
    /\ handle = "held" /\ Len(sent) < MaxCmds
    /\ \E s \in Schemas, t \in Tables :
         HandleSend(DbCommand("FetchColumns", NextId, "", s, t, 0))
    /\ handle' = handle
    /\ joinHandle' = joinHandle

Handle_preview_table ==
    /\ handle = "held" /\ Len(sent) < MaxCmds
    /\ \E s \in Schemas, t \in Tables :
         HandleSend(DbCommand("PreviewTable", NextId, "", s, t, PREVIEW_LIMIT))
    /\ handle' = handle
    /\ joinHandle' = joinHandle

Handle_disconnect ==
    /\ handle = "held" /\ Len(sent) < MaxCmds
    /\ HandleSend(DbCommand("Disconnect", NextId, "", "", "", 0))
    /\ handle' = handle
    /\ joinHandle' = joinHandle

\* Drop for DbSessionHandle: send Disconnect, then self.join_handle.take():
\* Some(handle) starts the join, None ends drop at once.
Handle_drop ==
    /\ handle = "held"
    /\ HandleSend(DbCommand("Disconnect", NextId, "", "", "", 0))
    /\ IF joinHandle = "handle"
       THEN /\ joinHandle' = "joining"
            /\ handle' = "dropping"
       ELSE /\ joinHandle' = joinHandle
            /\ handle' = "dropped"

\* ... and handle.join() returns once the worker thread has ended.
Handle_drop_join ==
    /\ handle = "dropping" /\ JoinReturns(wpc)
    /\ handle' = "dropped"
    /\ joinHandle' = "joined"
    /\ UNCHANGED <<impl, wpc, ready, cmdq, cmdRx, events, sent, refused, calls>>
    /\ UNCHANGED <<superVars, dbVars, loopVars>>
    /\ UNCHANGED otherVars

\* ======================================================================
\* Environment: the server or the network ends the connection
\* ======================================================================
KillConnection ==
    /\ conn = "alive"
    /\ conn' = "closed_err"
    /\ UNCHANGED <<impl, wpc, ready, cmdq, cmdRx, events, calls, adapter, client,
                   monitor, closedTx>>
    /\ UNCHANGED <<consumerVars, superVars, loopVars>>
    /\ UNCHANGED otherVars

\* ======================================================================
\* Specification
\* ======================================================================
Next ==
    \/ Lib_BuildRuntime
    \/ Lib_ReportFailure
    \/ Lib_Connect
    \/ Lib_ConnectFailedExit
    \/ Lib_SendReady
    \/ Lib_Dequeue
    \/ Lib_CallReturn
    \/ Lib_Teardown
    \/ Lib_Monitor
    \/ Ui_BuildRuntime
    \/ Ui_ReportFailure
    \/ Ui_Connect
    \/ Ui_ConnectFailedExit
    \/ Ui_SendReady
    \/ Ui_Dequeue
    \/ Ui_CallReturn
    \/ Ui_Monitor
    \/ Ui_Finish
    \/ Lib_SupervisorReady
    \/ Lib_SupervisorClosed
    \/ Ui_SupervisorReady
    \/ Ui_SupervisorClosed
    \/ SupervisorJoin
    \/ Consumer_TakeHandle
    \/ Handle_execute
    \/ Handle_load_schemas
    \/ Handle_load_tables
    \/ Handle_load_columns
    \/ Handle_preview_table
    \/ Handle_disconnect
    \/ Handle_drop
    \/ Handle_drop_join
    \/ KillConnection

Spec == Init /\ [][Next]_vars


\* ======================================================================
\* Properties
\* ======================================================================
CountEvents(kind) == Cardinality({i \in 1..Len(events) : events[i].kind = kind})

HandshakeEvents == CountEvents("Connected") + CountEvents("ConnectionFailed")

\* C1: adapter-based worker -- one spawn_session call puts exactly one
\* Connected-or-ConnectionFailed event on the event channel: never more than
\* one at any time, and exactly one once the supervisor thread has finished
\* (it finishes after sending Connected, or after joining a worker that
\* failed to bootstrap or to connect).
C1_LibExactlyOneHandshakeEvent ==
    impl = "lib" =>
        /\ HandshakeEvents <= 1
        /\ (spc = "done" => HandshakeEvents = 1)
        /\ (spc = "done" /\ wpc = "terminated" /\ conn = "none"
                => CountEvents("ConnectionFailed") = 1)

C1_Witness ==
    /\ impl = "lib" /\ spc = "done" /\ wpc = "terminated"
    /\ conn = "none"
    /\ CountEvents("ConnectionFailed") = 1 /\ CountEvents("Connected") = 0

\* C2: UI-embedded worker -- one spawn_session call puts exactly one
\* Connected-or-ConnectionFailed event on the event channel: never more than
\* one, and exactly one once the supervisor thread has finished.
C2_UiExactlyOneHandshakeEvent ==
    impl = "ui" =>
        /\ HandshakeEvents <= 1
        /\ (spc = "done" => HandshakeEvents = 1)

\* C3: a Connected event and a DbSessionHandle exist if and only if connect
\* returned success. Without a successful connect the command sender never
\* reaches the handshake channel, no handle is built and no Connected is
\* sent; after a successful connect the supervisor ends with exactly one
\* Connected sent; and from ConnectFailed the worker thread only proceeds to
\* its end, never into the handshake or the command loop, and each of its
\* remaining steps is enabled (it waits for nothing).
C3_State ==
    /\ conn = "none" =>
          /\ ready \in {"empty", "closed"}
          /\ handle = "none"
          /\ CountEvents("Connected") = 0
    /\ handle # "none" => CountEvents("Connected") = 1
    /\ (conn # "none" /\ spc = "done") => CountEvents("Connected") = 1
    /\ wpc = "connect_failed" =>
          /\ conn = "none"
          /\ ENABLED (Lib_ConnectFailedExit \/ Ui_ConnectFailedExit)
    /\ (wpc = "report_failure" /\ calls # <<>>) =>
          ENABLED (Lib_ReportFailure \/ Ui_ReportFailure)

C3_Step ==
    wpc = "connect_failed" => wpc' \in {"connect_failed", "report_failure", "terminated"}

C3_HandleIffConnected == []C3_State /\ [][C3_Step]_vars

C3_Witness ==
    /\ wpc = "terminated" /\ spc = "done" /\ conn = "none"
    /\ calls # <<>>
    /\ handle = "none" /\ CountEvents("ConnectionFailed") >= 1

\* C4: when the handshake channel closes without delivering a command
\* sender, the supervisor emits no event and only joins the worker thread,
\* in both worker implementations.
C4_SupervisorSilentOnClose ==
    [][(spc = "recv" /\ ready = "closed" /\ spc' # spc)
          => (events' = events /\ spc' = "joining")]_vars


\* ---------------------------------------------------------------- C5
\* The worker's position on the lifecycle of the spec's section 4.1; a
\* bootstrap failure is reported on the way from Initializing to Terminated.
LifecycleState(pc) ==
    CASE pc = "initializing" -> "Initializing"
      [] pc = "connecting" -> "Connecting"
      [] pc = "connect_failed" -> "ConnectFailed"
      [] pc = "ready" -> "Ready"
      [] pc \in {"running", "in_call"} -> "Running"
      [] pc = "disconnecting" -> "Disconnecting"
      [] pc \in {"report_failure", "terminated"} -> "Terminated"

LifecycleEdges ==
    { <<"Initializing", "Connecting">>, <<"Initializing", "Terminated">>,
      <<"Connecting", "ConnectFailed">>, <<"Connecting", "Ready">>,
      <<"ConnectFailed", "Terminated">>,
      <<"Ready", "Running">>, <<"Ready", "Terminated">>,
      <<"Running", "Disconnecting">>,
      <<"Disconnecting", "Terminated">> }

C5_State ==
    impl = "lib" =>
        (wpc \in {"running", "in_call"} => ready \in {"sent", "taken"})

C5_Step ==
    impl = "lib" =>
        /\ \/ LifecycleState(wpc') = LifecycleState(wpc)
           \/ <<LifecycleState(wpc), LifecycleState(wpc')>> \in LifecycleEdges
        /\ wpc \in {"disconnecting", "terminated"} =>
              (Len(cmdq') >= Len(cmdq) /\ cur' = cur /\ calls' \in {calls,
                    Append(calls, Call("disconnect", "worker", 0))})

\* C5: the adapter-based worker only moves forward along Initializing ->
\* Connecting -> (ConnectFailed | Ready) -> Running -> Disconnecting ->
\* Terminated; ConnectFailed leads only to Terminated, the loop runs only
\* after the command sender was put on the handshake channel, and after the
\* loop was left no command is dequeued any more.
C5_LifecycleForward == []C5_State /\ [][C5_Step]_vars

C5_Witness ==
    /\ impl = "lib" /\ wpc = "terminated"
    /\ cur.kind = "Disconnect" /\ cmdq # <<>>

\* ---------------------------------------------------------------- C6
CommandEvents == {i \in 1..Len(events) : events[i].cmd # 0}

\* C6: the events of commands sent through one handle are placed on the
\* event channel in the order the commands were sent.
C6_EventsInCommandOrder ==
    \A i, j \in CommandEvents : i < j => events[i].cmd < events[j].cmd

C6_Witness ==
    \E i, j \in CommandEvents :
        /\ i < j
        /\ events[i].kind = "TablesLoaded" /\ events[i].schema = "public"
        /\ events[j].kind = "ColumnsLoaded" /\ events[j].schema = "public"
        /\ events[j].table = "orders"

\* ---------------------------------------------------------------- C7
C7_State ==
    /\ Cardinality(inflight) <= 1
    /\ inflight # {} => (wpc = "in_call" /\ inflight = {cur.id})
    /\ \A k \in 1..Len(calls) : calls[k].by = "worker"

C7_Step ==
    Len(cmdq') < Len(cmdq) =>
        /\ inflight = {}
        /\ cur.kind \notin {"None", "Disconnect"} =>
              \E i \in CommandEvents : events[i].cmd = cur.id

\* C7: at most one adapter operation is in progress at any time; the loop
\* dequeues the next command only after the current call has returned and
\* its event was sent; only the worker thread invokes adapter operations.
C7_OneCallInFlight == []C7_State /\ [][C7_Step]_vars

C7_Witness ==
    /\ wpc = "in_call" /\ cmdq # <<>> /\ inflight = {cur.id}
    /\ cur.id = 1

\* ---------------------------------------------------------------- C8
EventsOf(id) == {i \in 1..Len(events) : events[i].cmd = id}

Called(id) == \E k \in 1..Len(calls) : calls[k].cmd = id

EventMatches(c, e) ==
    CASE c.kind = "Execute" -> e.kind \in {"QueryFinished", "QueryFailed"}
      [] c.kind = "FetchSchemas" -> e.kind \in {"SchemasLoaded", "MetadataFailed"}
      [] c.kind = "FetchTables" ->
            \/ e.kind = "TablesLoaded" /\ e.schema = c.schema
            \/ e.kind = "MetadataFailed"
      [] c.kind = "FetchColumns" ->
            \/ e.kind = "ColumnsLoaded" /\ e.schema = c.schema /\ e.table = c.table
            \/ e.kind = "MetadataFailed"
      [] c.kind = "PreviewTable" ->
            \/ e.kind = "TablePreviewReady" /\ e.schema = c.schema /\ e.table = c.table
            \/ e.kind = "MetadataFailed"
      [] OTHER -> FALSE

\* C8: every dequeued command other than Disconnect produces exactly one
\* event, of the kind the command table prescribes and with the command's
\* schema and table; Disconnect produces no command-result event. (No event
\* while the call is pending, one from its return on.)
C8_OneEventPerCommand ==
    \A id \in 1..Len(sent) :
        /\ \A i \in EventsOf(id) : EventMatches(sent[id], events[i])
        /\ Cardinality(EventsOf(id)) =
              IF sent[id].kind # "Disconnect" /\ Called(id) /\ id \notin inflight
              THEN 1 ELSE 0

C8_Witness ==
    \E id \in 1..Len(sent) :
        /\ sent[id].kind = "FetchTables" /\ sent[id].schema = "audit"
        /\ \E i \in EventsOf(id) : events[i].kind = "TablesLoaded"
        /\ \E d \in 1..Len(sent) : sent[d].kind = "Disconnect" /\ cur = sent[d]

\* ---------------------------------------------------------------- C9
FailureKinds == {"QueryFailed", "MetadataFailed"}

C9_State ==
    (wpc = "running" /\ cmdq # <<>>) => ENABLED (Lib_Dequeue \/ Ui_Dequeue)

C9_Step ==
    (Len(events') = Len(events) + 1 /\ events'[Len(events')].cmd # 0) =>
        /\ wpc' = "running"
        /\ cmdq' = cmdq /\ cmdRx /\ cmdRx'
        /\ adapter' = adapter /\ client' = client

\* C9: a failed command does not stop the loop: after QueryFailed or
\* MetadataFailed the loop is back at recv() with the queue, the receiver and
\* the connection state untouched, exactly as after a success, and the next
\* queued command can be dequeued.
C9_FailureNotFatal == []C9_State /\ [][C9_Step]_vars

C9_Witness ==
    /\ \E i, j \in CommandEvents :
          /\ events[i].cmd = 1 /\ events[i].kind \in FailureKinds
          /\ events[j].cmd = 2 /\ events[j].kind \in FailureKinds
    /\ cur.id = 3

\* --------------------------------------------------------------- C10
AfterDisconnect(id) == \E d \in 1..(id - 1) : sent[d].kind = "Disconnect"

C10_State ==
    /\ \A id \in 1..Len(sent) :
          AfterDisconnect(id) =>
              /\ ~Called(id)
              /\ EventsOf(id) = {}
              /\ id \notin inflight
              /\ cur.id # id
    /\ \A id \in refused : ~Called(id) /\ EventsOf(id) = {}
    /\ (handle = "held" /\ Len(sent) < MaxCmds) =>
          /\ ENABLED Handle_execute
          /\ ENABLED Handle_load_schemas
          /\ ENABLED Handle_load_tables
          /\ ENABLED Handle_load_columns
          /\ ENABLED Handle_preview_table
          /\ ENABLED Handle_disconnect

\* C10: a command queued after a Disconnect is never dequeued, never passed to
\* the adapter and never answered by an event; a handle method called then,
\* also after the worker thread has ended, returns at once (its send is
\* either queued or refused, and the refusal is discarded).
C10_NothingAfterDisconnect == C10_State

C10_Witness ==
    /\ wpc = "terminated" /\ handle = "held"
    /\ Len(sent) = 2 /\ sent[1].kind = "Disconnect" /\ sent[2].kind = "FetchSchemas"
    /\ cur = sent[1]

\* ----------------------------------------------------------------------
\* C11: destroying a DbSessionHandle enqueues Disconnect and then joins the
\* worker thread: while the join is pending and once Drop has returned the
\* last command passed to send is Disconnect; when Drop has returned the
\* worker thread has terminated and the adapter's disconnect has run (the
\* UI worker has dropped its Client).  The join handle only moves
\* supervisor -> handle -> joining -> joined, so it is taken once and the
\* thread is joined once.
JoinHandleEdges ==
    {<<"supervisor", "handle">>, <<"supervisor", "joining">>,
     <<"handle", "joining">>, <<"joining", "joined">>}

DisconnectHasRun ==
    IF impl = "lib"
    THEN /\ adapter = [client |-> FALSE, disconnecting |-> TRUE]
         /\ \E i \in 1..Len(calls) : calls[i].op = "disconnect"
    ELSE ~client

C11_State ==
    /\ handle \in {"dropping", "dropped"} =>
         /\ sent # <<>>
         /\ sent[Len(sent)].kind = "Disconnect"
    /\ handle = "dropping" => joinHandle = "joining"
    /\ handle = "dropped" =>
         /\ wpc = "terminated"
         /\ joinHandle = "joined"
         /\ DisconnectHasRun

C11_Step ==
    joinHandle' # joinHandle => <<joinHandle, joinHandle'>> \in JoinHandleEdges

C11_DropJoinsWorker == []C11_State /\ [][C11_Step]_vars

C11_Witness ==
    /\ handle = "dropped"
    /\ wpc = "terminated"
    /\ joinHandle = "joined"
    /\ Len(events) > 1

\* ----------------------------------------------------------------------
\* Fair scheduling.  The worker thread, once it can take a step (a command
\* is queued, an adapter call returns, the closure report has arrived),
\* takes it; its runtime polls the monitor task once the connection future
\* has completed and the worker is at an await point; the supervisor thread
\* runs; a join that can return does return.
WorkerNext ==
    \/ Lib_BuildRuntime \/ Lib_ReportFailure \/ Lib_Connect \/ Lib_ConnectFailedExit
    \/ Lib_SendReady \/ Lib_Dequeue \/ Lib_CallReturn \/ Lib_Teardown
    \/ Ui_BuildRuntime \/ Ui_ReportFailure \/ Ui_Connect \/ Ui_ConnectFailedExit
    \/ Ui_SendReady \/ Ui_Dequeue \/ Ui_CallReturn \/ Ui_Finish

MonitorNext == Lib_Monitor \/ Ui_Monitor

SupervisorNext ==
    \/ Lib_SupervisorReady \/ Lib_SupervisorClosed
    \/ Ui_SupervisorReady \/ Ui_SupervisorClosed
    \/ SupervisorJoin

FairSpec ==
    /\ Spec
    /\ WF_vars(WorkerNext)
    /\ WF_vars(MonitorNext)
    /\ WF_vars(SupervisorNext)
    /\ WF_vars(Handle_drop_join)

\* C12: once a Disconnect command has been passed to send (by disconnect()
\* or by Drop), the worker thread eventually terminates, and a Drop that is
\* blocked in join eventually returns, in both implementations.
DisconnectSent == \E i \in 1..Len(sent) : sent[i].kind = "Disconnect"

C12_DisconnectTerminates ==
    DisconnectSent ~> (wpc = "terminated" /\ handle # "dropping")

C12_Witness ==
    /\ impl = "ui"
    /\ DisconnectSent
    /\ closedTx = "sent"
    /\ wpc = "terminated"
    /\ handle = "dropped"

\* ----------------------------------------------------------------------
\* C13: after a requested disconnect on a connection that is still alive,
\* the monitor emits ConnectionClosed(None) before the worker thread exits:
\* once the worker has terminated after dequeuing Disconnect and its
\* teardown closed a live connection, a ConnectionClosed event with no
\* reason is among the events.
ClosedEvents(some) ==
    {i \in 1..Len(events) :
        events[i].kind = "ConnectionClosed" /\ events[i].some = some}

RequestedDisconnectDone ==
    /\ wpc = "terminated"
    /\ cur.kind = "Disconnect"
    /\ conn = "closed_ok"

C13_ClosedNoneAfterDisconnect ==
    RequestedDisconnectDone => ClosedEvents(FALSE) # {}

\* ----------------------------------------------------------------------
\* C14: once the worker has processed the Disconnect command, no
\* ConnectionClosed event carrying Some(reason) is emitted afterwards,
\* whatever the connection future completes with.
EmitsClosedSome ==
    /\ Len(events') = Len(events) + 1
    /\ events'[Len(events')].kind = "ConnectionClosed"
    /\ events'[Len(events')].some

C14_Step == cur.kind = "Disconnect" => ~EmitsClosedSome

C14_NoReasonAfterDisconnect == [][C14_Step]_vars

\* ----------------------------------------------------------------------
\* C15 as stated: an externally killed connection always leads to a
\* ConnectionClosed(Some(reason)) event, in every interleaving with the
\* consumer's commands: once the worker has terminated on a connection
\* that was killed while the client was held, such an event is among the
\* events.
C15_KilledAlwaysReported ==
    (wpc = "terminated" /\ conn = "closed_err") => ClosedEvents(TRUE) # {}

\* C15 amended: when the monitor task is polled while the flag is unset and
\* the connection has ended with an error, it emits
\* ConnectionClosed(Some(reason)) carrying the error text; and a killed
\* connection leads to such an event unless the worker dequeues a
\* Disconnect before the monitor task is polled.
C15_Step ==
    (/\ impl = "lib"
     /\ monitor = "waiting" /\ monitor' = "done"
     /\ ~adapter.disconnecting
     /\ conn = "closed_err")
    => /\ EmitsClosedSome
       /\ events'[Len(events')].msg = ERR_CLOSED

C15_KilledReportedUnlessDisconnect ==
    /\ [][C15_Step]_vars
    /\ (conn = "closed_err") ~> (ClosedEvents(TRUE) # {} \/ cur.kind = "Disconnect")

C15_Witness ==
    /\ impl = "lib"
    /\ conn = "closed_err"
    /\ cur.kind # "Disconnect"
    /\ \E i \in ClosedEvents(TRUE) : events[i].msg = ERR_CLOSED

\* ----------------------------------------------------------------------
\* C16: every teardown of the adapter goes through disconnect(), which sets
\* the 'disconnecting' flag strictly before it drops the client: after each
\* statement of disconnect() a dropped client implies a set flag, and in
\* every state of the adapter-based worker a connection ended by the
\* teardown (or a client dropped after a connect) implies a set flag, so
\* the monitor cannot read an unset flag for that termination.
FlagBeforeClientDrop(a) ==
    \A k \in 1..Len(PostgresAdapter_disconnect_steps(a)) :
        LET s == PostgresAdapter_disconnect_steps(a)[k]
        IN  (~s.client) => s.disconnecting

C16_FlagBeforeTeardown ==
    /\ FlagBeforeClientDrop(adapter)
    /\ (impl = "lib" /\ conn = "closed_ok") => adapter.disconnecting
    /\ (impl = "lib" /\ conn # "none" /\ ~adapter.client) => adapter.disconnecting

C16_Witness ==
    /\ impl = "lib"
    /\ conn = "closed_ok"
    /\ adapter = [client |-> FALSE, disconnecting |-> TRUE]
    /\ cur.kind = "Disconnect"

\* ----------------------------------------------------------------------
\* C17: adapter disconnect is idempotent and safe without a connect: from
\* every adapter state a session reaches, and from a new adapter, one call
\* and two calls of disconnect() leave the same state, no client held and
\* the flag set; the Disconnect path of the worker, which calls it inside
\* the loop and again after it, ends in that state.
Disconnected == [client |-> FALSE, disconnecting |-> TRUE]

DisconnectCalls == {i \in 1..Len(calls) : calls[i].op = "disconnect"}

C17_DisconnectIdempotent ==
    /\ PostgresAdapter_disconnect(adapter) = Disconnected
    /\ PostgresAdapter_disconnect(PostgresAdapter_disconnect(adapter)) =
         PostgresAdapter_disconnect(adapter)
    /\ PostgresAdapter_disconnect(PostgresAdapter_new) = Disconnected
    /\ (impl = "lib" /\ DisconnectCalls # {}) => adapter = Disconnected
    /\ (impl = "lib" /\ wpc = "terminated" /\ cur.kind = "Disconnect") =>
         Cardinality(DisconnectCalls) = 2

C17_Witness ==
    /\ impl = "lib"
    /\ wpc = "terminated"
    /\ Cardinality(DisconnectCalls) = 2
    /\ adapter = Disconnected

\* ======================================================================
\* One adapter call taken by itself: execute and preview_table
\* ======================================================================
\* Limits a caller passes: none, one, the two limits the handle uses, and
\* one above the global cap.
QueryLimits == {0, 1, PREVIEW_LIMIT, ROW_LIMIT, ROW_LIMIT + 1}

Min(a, b) == IF a < b THEN a ELSE b

\* The rows a table or a statement holds server-side, named by position.
ServerRows(n) == [i \in 1..n |-> i]

\* client.query(sql): the server returns every row of the statement, or the
\* first k of them under "limit k".
ServerAnswer(stmt, n) ==
    IF stmt.limit = <<>> THEN ServerRows(n)
    ELSE SubSeq(ServerRows(n), 1, Min(n, stmt.limit[1]))

ColumnNames == <<"id">>

\* render_row: one rendered cell per column of the row.
render_row(row) == <<row>>

\* convert_rows: column names from the first row, then rows.iter().take(limit).
convert_rows(rows, limit) ==
    [columns |-> IF rows = <<>> THEN <<>> ELSE ColumnNames,
     rows |-> [k \in 1..Min(Len(rows), limit) |-> render_row(rows[k])]]

\* value.replace('"', "\"\"")
RECURSIVE escape_quotes(_)
escape_quotes(value) ==
    IF value = "" THEN ""
    ELSE LET ch == SubSeq(value, 1, 1)
         IN  (IF ch = "\"" THEN "\"\"" ELSE ch)
                \o escape_quotes(SubSeq(value, 2, Len(value)))

\* Variant that wraps the value without doubling its quotes.
quote_identifier_NoEscape(value) == "\"" \o value \o "\""

quote_identifier(value) == "\"" \o escape_quotes(value) \o "\""

qualified_table_name(schema, table) ==
    quote_identifier(schema) \o "." \o quote_identifier(table)

\* Variant of execute's flag that also fires at exactly `limit` rows.
ExecuteTruncated_AtLimit(len, limit) == len >= limit

\* execute: truncated: rows.len() > limit
ExecuteTruncated(len, limit) == len > limit

\* PostgresAdapter::execute, Ok arm, on the rows the server returned.
PostgresAdapter_execute(rows, limit) ==
    LET c == convert_rows(rows, limit)
    IN  [columns |-> c.columns, rows |-> c.rows, row_count |-> Len(rows),
         truncated |-> ExecuteTruncated(Len(rows), limit)]

\* execute_query of the UI worker, Ok arm.
Ui_execute_query(rows, limit) ==
    LET c == convert_rows(rows, limit)
    IN  [columns |-> c.columns, rows |-> c.rows, row_count |-> Len(rows),
         truncated |-> Len(rows) > limit]

\* PostgresAdapter::preview_table: the statement it formats ...
PostgresAdapter_preview_sql(schema, table, limit) ==
    [text |-> "select * from " \o qualified_table_name(schema, table)
                \o " limit " \o ToString(Min(limit, ROW_LIMIT)),
     limit |-> <<Min(limit, ROW_LIMIT)>>]

\* ... and the QueryResult it builds from the rows the server returned.
PostgresAdapter_preview_table(rows, limit) ==
    LET c == convert_rows(rows, limit)
    IN  [columns |-> c.columns, rows |-> c.rows, row_count |-> Len(rows),
         truncated |-> Len(rows) = limit]

\* preview_table of the UI worker: the limit goes into the text as given.
Ui_preview_sql(schema, table, limit) ==
    [text |-> "select * from " \o qualified_table_name(schema, table)
                \o " limit " \o ToString(limit),
     limit |-> <<limit>>]

Ui_preview_table(rows, limit) ==
    LET c == convert_rows(rows, limit)
    IN  [columns |-> c.columns, rows |-> c.rows, row_count |-> Len(rows),
         truncated |-> Len(rows) = limit]

\* The connected adapter (or the UI worker's client) in front of a statement
\* or a table that holds tableRows rows.
\* execute and preview_table read
\* nothing but their arguments and the rows the server returns, so every
\* behaviour makes one call.
QueryInit ==
    /\ SessionInit
    /\ RestIdle
    /\ tableRows \in 0..MaxRows
    /\ request = NoRequest
    /\ statement = NoStatement
    /\ result = NoResult
    /\ PureIdle

Lib_execute_call ==
    /\ impl = "lib" /\ request = NoRequest
    /\ \E sql \in SqlTexts, limit \in QueryLimits :
         LET stmt == [text |-> sql, limit |-> <<>>]
         IN  /\ request' = [NoRequest EXCEPT !.op = "execute", !.sql = sql,
                                             !.limit = limit]
             /\ statement' = stmt
             /\ result' = PostgresAdapter_execute(ServerAnswer(stmt, tableRows), limit)
    /\ UNCHANGED <<tableRows, sessionVars, pureVars, restVars>>

Ui_execute_query_call ==
    /\ impl = "ui" /\ request = NoRequest
    /\ \E sql \in SqlTexts, limit \in QueryLimits :
         LET stmt == [text |-> sql, limit |-> <<>>]
         IN  /\ request' = [NoRequest EXCEPT !.op = "execute", !.sql = sql,
                                             !.limit = limit]
             /\ statement' = stmt
             /\ result' = Ui_execute_query(ServerAnswer(stmt, tableRows), limit)
    /\ UNCHANGED <<tableRows, sessionVars, pureVars, restVars>>

Lib_preview_table_call ==
    /\ impl = "lib" /\ request = NoRequest
    /\ \E schema \in Schemas, table \in Tables, limit \in QueryLimits :
         LET stmt == PostgresAdapter_preview_sql(schema, table, limit)
         IN  /\ request' = [NoRequest EXCEPT !.op = "preview_table",
                                             !.schema = schema, !.table = table,
                                             !.limit = limit]
             /\ statement' = stmt
             /\ result' = PostgresAdapter_preview_table(
                              ServerAnswer(stmt, tableRows), limit)
    /\ UNCHANGED <<tableRows, sessionVars, pureVars, restVars>>

Ui_preview_table_call ==
    /\ impl = "ui" /\ request = NoRequest
    /\ \E schema \in Schemas, table \in Tables, limit \in QueryLimits :
         LET stmt == Ui_preview_sql(schema, table, limit)
         IN  /\ request' = [NoRequest EXCEPT !.op = "preview_table",
                                             !.schema = schema, !.table = table,
                                             !.limit = limit]
             /\ statement' = stmt
             /\ result' = Ui_preview_table(ServerAnswer(stmt, tableRows), limit)
    /\ UNCHANGED <<tableRows, sessionVars, pureVars, restVars>>

QueryNext ==
    \/ Lib_execute_call
    \/ Ui_execute_query_call
    \/ Lib_preview_table_call
    \/ Ui_preview_table_call

SpecQuery == QueryInit /\ [][QueryNext]_vars

\* ----------------------------------------------------------------------
\* C18: execute(sql, limit) on a statement returning n rows gives
\* row_count = n, min(n, limit) rendered rows (the first ones, in order) and
\* truncated exactly when n > limit; in particular 1001 rows under limit
\* 1000 give row_count 1001, 1000 rows and truncated, and 1000 rows give
\* truncated false.
C18_ExecuteCounts ==
    request.op = "execute" =>
        /\ result.row_count = tableRows
        /\ Len(result.rows) = Min(tableRows, request.limit)
        /\ \A k \in 1..Len(result.rows) : result.rows[k] = <<k>>
        /\ result.truncated <=> (tableRows > request.limit)
        /\ (tableRows = 1001 /\ request.limit = 1000) =>
              /\ result.row_count = 1001
              /\ Len(result.rows) = 1000
              /\ result.truncated
        /\ (tableRows = 1000 /\ request.limit = 1000) => ~result.truncated

C18_Witness ==
    /\ request.op = "execute"
    /\ tableRows = 1001
    /\ request.limit = 1000
    /\ result.row_count = 1001
    /\ Len(result.rows) = 1000
    /\ result.truncated

\* ----------------------------------------------------------------------
\* C19: for every preview_table(schema, table, n) the limit written into
\* the generated "select * from ... limit ..." statement is
\* min(n, ROW_LIMIT), in both worker implementations.
C19_PreviewLimitClamped ==
    request.op = "preview_table" =>
        /\ statement.limit = <<Min(request.limit, ROW_LIMIT)>>
        /\ statement.text =
             "select * from " \o qualified_table_name(request.schema, request.table)
                \o " limit " \o ToString(Min(request.limit, ROW_LIMIT))

\* ----------------------------------------------------------------------
\* C20: in every QueryResult produced by execute or by preview_table,
\* truncated is true if and only if more rows existed server-side than were
\* returned to the consumer, for every table size and every limit.
C20_TruncatedIffMoreRows ==
    request.op # "none" =>
        (result.truncated <=> (tableRows > Len(result.rows)))

\* ======================================================================
\* Identifier quoting taken by itself
\* ======================================================================
\* Names are drawn from every string over a letter, the double quote and
\* the dot up to MaxIdentLen characters, and the names of the examples.
IdentChars == {"a", "\"", "."}

RECURSIVE StringsUpTo(_)
StringsUpTo(n) ==
    IF n = 0 THEN {""}
    ELSE StringsUpTo(n - 1) \cup
         {s \o c : s \in {t \in StringsUpTo(n - 1) : Len(t) = n - 1}, c \in IdentChars}

Identifiers == StringsUpTo(MaxIdentLen) \cup {"public", "o\"rd", "a\"b"}

QuoteInit ==
    /\ SessionInit
    /\ RestIdle
    /\ QueryIdle
    /\ \E schema \in Identifiers, table \in Identifiers :
         arg = [fn |-> "identifier", schema |-> schema, table |-> table]
    /\ ret = NoRet

\* quote_identifier applied to the schema and to the table name.
quote_identifier_call ==
    /\ arg.fn = "identifier" /\ ret = NoRet
    /\ ret' = [fn |-> "quote_identifier",
               schema |-> quote_identifier(arg.schema),
               table |-> quote_identifier(arg.table)]
    /\ UNCHANGED <<arg, sessionVars, queryVars, restVars>>

qualified_table_name_call ==
    /\ arg.fn = "identifier" /\ ret = NoRet
    /\ ret' = [fn |-> "qualified_table_name",
               value |-> qualified_table_name(arg.schema, arg.table)]
    /\ UNCHANGED <<arg, sessionVars, queryVars, restVars>>

QuoteNext ==
    \/ quote_identifier_call
    \/ qualified_table_name_call

SpecQuote == QuoteInit /\ [][QuoteNext]_vars

\* ----------------------------------------------------------------------
\* C21: quote_identifier(s) is s between one leading and one trailing
\* double quote with every embedded double quote doubled: stripping the
\* outer quotes and halving the doubled quotes gives s back, and distinct
\* names give distinct results; qualified_table_name(schema, table) is the
\* quoted schema, a dot, and the quoted table; a"b gives "a""b" and
\* (public, o"rd) gives "public"."o""rd".
RECURSIVE CountQuotes(_)
CountQuotes(s) ==
    IF s = "" THEN 0
    ELSE (IF SubSeq(s, 1, 1) = "\"" THEN 1 ELSE 0) + CountQuotes(SubSeq(s, 2, Len(s)))

\* Halving: a pair of double quotes reads as one, any other character as itself.
RECURSIVE HalveQuotes(_)
HalveQuotes(s) ==
    IF s = "" THEN ""
    ELSE IF Len(s) >= 2 /\ SubSeq(s, 1, 2) = "\"\""
         THEN "\"" \o HalveQuotes(SubSeq(s, 3, Len(s)))
         ELSE SubSeq(s, 1, 1) \o HalveQuotes(SubSeq(s, 2, Len(s)))

QuotedLen(s) == Len(s) + CountQuotes(s) + 2

\* q is the quoted form of s.
IsQuotedFormOf(q, s) ==
    /\ Len(q) = QuotedLen(s)
    /\ SubSeq(q, 1, 1) = "\""
    /\ SubSeq(q, Len(q), Len(q)) = "\""
    /\ CountQuotes(q) = 2 * CountQuotes(s) + 2
    /\ HalveQuotes(SubSeq(q, 2, Len(q) - 1)) = s

C21_QuotingRoundTrip ==
    /\ ret.fn = "quote_identifier" =>
         /\ IsQuotedFormOf(ret.schema, arg.schema)
         /\ IsQuotedFormOf(ret.table, arg.table)
         /\ (arg.schema # arg.table) => (ret.schema # ret.table)
         /\ (arg.schema = "a\"b") => (ret.schema = "\"a\"\"b\"")
    /\ ret.fn = "qualified_table_name" =>
         LET n == QuotedLen(arg.schema)
             v == ret.value
         IN  /\ Len(v) = n + 1 + QuotedLen(arg.table)
             /\ IsQuotedFormOf(SubSeq(v, 1, n), arg.schema)
             /\ SubSeq(v, n + 1, n + 1) = "."
             /\ IsQuotedFormOf(SubSeq(v, n + 2, Len(v)), arg.table)
             /\ (arg.schema = "public" /\ arg.table = "o\"rd") =>
                   (v = "\"public\".\"o\"\"rd\"")

C21_Witness ==
    /\ ret.fn = "qualified_table_name"
    /\ arg.schema = "public"
    /\ arg.table = "o\"rd"
    /\ ret.value = "\"public\".\"o\"\"rd\""

\* ======================================================================
\* Cell rendering taken by itself: render_row, render_cell, format_optional
\* ======================================================================
IntTypes == {"INT2", "INT4", "INT8"}
FloatTypes == {"FLOAT4", "FLOAT8"}
TextTypes == {"TEXT", "VARCHAR", "BPCHAR", "NAME"}
DisplayTypes == {"TIMESTAMP", "DATE", "UUID", "JSON", "JSONB"}

\* The types render_cell has an arm for.
RecognisedTypes ==
    {"BOOL"} \cup IntTypes \cup FloatTypes \cup TextTypes \cup DisplayTypes
        \cup {"TIMESTAMPTZ", "BYTEA"}

\* Types that reach the `_` arm; the first two are accepted by the String
\* decoder of the driver, the others are not.
StringLikeTypes == {"UNKNOWN", "citext"}
UnrecognisedTypes == StringLikeTypes \cup {"NUMERIC", "INTERVAL"}

ColumnTypes == RecognisedTypes \cup UnrecognisedTypes

\* A decoded value: b for bool, n for the integers, bytes for bytea, text
\* for strings.  A value whose text form is not computed here carries it:
\* text for to_string, rfc3339 for to_rfc3339.
Value(b, n, bytes, text, rfc3339) ==
    [b |-> b, n |-> n, bytes |-> bytes, text |-> text, rfc3339 |-> rfc3339]

NoValue == Value(FALSE, 0, <<>>, "", "")
BoolValue(b) == Value(b, 0, <<>>, "", "")
IntValue(n) == Value(FALSE, n, <<>>, "", "")
BytesValue(bytes) == Value(FALSE, 0, bytes, "", "")
TextValue(text) == Value(FALSE, 0, <<>>, text, "")

\* Values a non-NULL cell of a type holds once decoded.
CellValues(ty) ==
    IF ty = "BOOL" THEN {BoolValue(TRUE), BoolValue(FALSE)}
    ELSE IF ty \in IntTypes THEN {IntValue(-7), IntValue(42)}
    ELSE IF ty \in FloatTypes THEN {TextValue("1.5")}
    ELSE IF ty = "BYTEA" THEN {BytesValue(<<>>), BytesValue(<<0, 171>>)}
    ELSE IF ty = "TIMESTAMP" THEN {TextValue("2024-01-02 03:04:05")}
    ELSE IF ty = "TIMESTAMPTZ"
         THEN {Value(FALSE, 0, <<>>, "2024-01-02 03:04:05 UTC",
                     "2024-01-02T03:04:05+00:00")}
    ELSE IF ty \in DisplayTypes THEN {TextValue("{}")}
    ELSE {TextValue("abc"), TextValue("NULL")}

Cells ==
    {[ty |-> ty, null |-> TRUE, value |-> NoValue] : ty \in ColumnTypes}
    \cup UNION {{[ty |-> ty, null |-> FALSE, value |-> v] : v \in CellValues(ty)} :
                ty \in ColumnTypes}

\* Result<Option<T>, E> of row.try_get.
GotSome(v) == [tag |-> "Some", inner |-> v]
GotNone == [tag |-> "None", inner |-> NoValue]
GotErr == [tag |-> "Err", inner |-> NoValue]

\* The decoder each arm of render_cell asks for accepts the column's type in
\* the recognised arms; the `_` arm asks for Option<String>.
DecoderAccepts(ty) == ty \in RecognisedTypes \cup StringLikeTypes

\* row.try_get::<_, Option<T>>(idx): a type the decoder does not accept is
\* an error; NULL is Ok(None); a value decodes or fails to decode.
TryGet(cell) ==
    IF ~DecoderAccepts(cell.ty) THEN {GotErr}
    ELSE IF cell.null THEN {GotNone}
    ELSE {GotSome(cell.value), GotErr}

HexDigits == "0123456789abcdef"
HexDigit(n) == SubSeq(HexDigits, n + 1, n + 1)

\* format_bytea: "\x" followed by two lowercase hex digits per byte.
RECURSIVE HexBytes(_)
HexBytes(bytes) ==
    IF bytes = <<>> THEN ""
    ELSE HexDigit(Head(bytes) \div 16) \o HexDigit(Head(bytes) % 16)
            \o HexBytes(Tail(bytes))

format_bytea(bytes) == "\\x" \o HexBytes(bytes)

\* inner.to_string() of the value an arm hands to format_optional.
ValueToString(ty, v) ==
    IF ty = "BOOL" THEN (IF v.b THEN "true" ELSE "false")
    ELSE IF ty \in IntTypes THEN ToString(v.n)
    ELSE IF ty = "BYTEA" THEN format_bytea(v.bytes)
    ELSE IF ty = "TIMESTAMPTZ" THEN v.rfc3339
    ELSE v.text

\* Variant of format_optional that renders a decode error like NULL.
format_optional_ErrAsNull(ty, value) ==
    IF value.tag = "Some" THEN ValueToString(ty, value.inner) ELSE "NULL"

\* format_optional: Ok(Some(inner)) => inner.to_string(), Ok(None) => "NULL",
\* Err(_) => "<err>".
format_optional(ty, value) ==
    IF value.tag = "Some" THEN ValueToString(ty, value.inner)
    ELSE IF value.tag = "None" THEN "NULL"
    ELSE "<err>"

\* The `_` arm: .map(|opt| opt.or_else(|| Some("<unsupported>".into())))
OrElseUnsupported(value) ==
    IF value.tag = "None" THEN GotSome(TextValue("<unsupported>")) ELSE value

\* render_cell on the outcome `got` of the arm's try_get.
render_cell(ty, got) ==
    IF ty \in RecognisedTypes THEN format_optional(ty, got)
    ELSE format_optional(ty, OrElseUnsupported(got))

\* A row of two columns.
RenderInit ==
    /\ SessionInit
    /\ RestIdle
    /\ QueryIdle
    /\ \E c1 \in Cells, c2 \in Cells : arg = [fn |-> "row", cells |-> <<c1, c2>>]
    /\ ret = NoRet

\* render_cell on the first column of the row.
render_cell_call ==
    /\ arg.fn = "row" /\ ret = NoRet
    /\ \E got \in TryGet(arg.cells[1]) :
         ret' = [fn |-> "render_cell", got |-> got,
                 text |-> render_cell(arg.cells[1].ty, got)]
    /\ UNCHANGED <<arg, sessionVars, queryVars, restVars>>

\* render_row: render_cell on every column, in order.
render_row_call ==
    /\ arg.fn = "row" /\ ret = NoRet
    /\ \E gots \in [1..Len(arg.cells) -> {GotNone, GotErr} \cup
                       {GotSome(c.value) : c \in {arg.cells[k] : k \in 1..Len(arg.cells)}}] :
         /\ \A k \in 1..Len(arg.cells) : gots[k] \in TryGet(arg.cells[k])
         /\ ret' = [fn |-> "render_row", gots |-> gots,
                    values |-> [k \in 1..Len(arg.cells) |->
                                   render_cell(arg.cells[k].ty, gots[k])]]
    /\ UNCHANGED <<arg, sessionVars, queryVars, restVars>>

RenderNext ==
    \/ render_cell_call
    \/ render_row_call

SpecRender == RenderInit /\ [][RenderNext]_vars

\* ----------------------------------------------------------------------
\* C22: render_cell yields the literal NULL for a SQL NULL value of every
\* declared column type, recognised or not.
C22_NullRendersNull ==
    (ret.fn = "render_cell" /\ arg.cells[1].null) => ret.text = "NULL"

\* ----------------------------------------------------------------------
\* C23: render_cell yields <unsupported> for every non-NULL value whose
\* declared type is not a recognised one, whatever the fallback decode
\* attempt gives.
C23_UnrecognisedRendersUnsupported ==
    (/\ ret.fn = "render_cell"
     /\ ~arg.cells[1].null
     /\ arg.cells[1].ty \notin RecognisedTypes)
    => ret.text = "<unsupported>"

\* ----------------------------------------------------------------------
\* C24: rendering is total: for every declared type and decode outcome
\* render_cell returns a string, render_row returns one string per column,
\* and a present value of a recognised type that fails to decode renders as
\* <err>, in the cell and inside a row.
C24_RenderingTotal ==
    /\ ret.fn = "render_cell" =>
         /\ ret.text \in STRING
         /\ (arg.cells[1].ty \in RecognisedTypes /\ ~arg.cells[1].null
                /\ ret.got = GotErr) => ret.text = "<err>"
    /\ ret.fn = "render_row" =>
         /\ Len(ret.values) = Len(arg.cells)
         /\ \A k \in 1..Len(arg.cells) :
              /\ ret.values[k] \in STRING
              /\ (arg.cells[k].ty \in RecognisedTypes /\ ~arg.cells[k].null
                     /\ ret.gots[k] = GotErr) => ret.values[k] = "<err>"

C24_Witness ==
    /\ ret.fn = "render_row"
    /\ arg.cells[1].ty = "INT4" /\ ~arg.cells[1].null
    /\ ret.gots[1] = GotErr
    /\ ret.values[1] = "<err>"
    /\ ret.gots[2].tag = "Some"

\* ======================================================================
\* Connection error classification taken by itself
\* ======================================================================
\* SqlState codes the function names, and one it does not.
INVALID_PASSWORD == "28P01"
INVALID_AUTHORIZATION_SPECIFICATION == "28000"
INVALID_CATALOG_NAME == "3D000"
TOO_MANY_CONNECTIONS == "53300"

SqlStates ==
    {INVALID_PASSWORD, INVALID_AUTHORIZATION_SPECIFICATION, INVALID_CATALOG_NAME,
     TOO_MANY_CONNECTIONS}

\* Messages a server reports; two of them hold the words the text rules
\* look for.
ServerMessages ==
    {"sorry, too many clients already",
     "connection refused by pg_hba.conf",
     "canceling statement due to statement timeout"}

\* Raw texts of errors that are not server-reported.
TextHeads == {"", "error connecting to server: ", "IO: "}
TextCores ==
    {"Connection refused", "connection REFUSED", "timeout", "Timeout elapsed",
     "timed out", "refused", "invalid configuration"}
TextTails == {"", " (os error 111)", " after timeout", " then connection refused"}

\* A tokio_postgres::Error: as_db_error() (db: code and message) and
\* to_string() (text).
DbErrors ==
    {[db |-> TRUE, code |-> c, message |-> m, text |-> "db error: FATAL: " \o m] :
        c \in SqlStates, m \in ServerMessages}

OtherErrors ==
    {[db |-> FALSE, code |-> "", message |-> "", text |-> h \o c \o t] :
        h \in TextHeads, c \in TextCores, t \in TextTails}

UpperLetters == "ABCDEFGHIJKLMNOPQRSTUVWXYZ"
LowerLetters == "abcdefghijklmnopqrstuvwxyz"

to_lowercase_char(c) ==
    IF \E i \in 1..Len(UpperLetters) : SubSeq(UpperLetters, i, i) = c
    THEN LET i == CHOOSE i \in 1..Len(UpperLetters) : SubSeq(UpperLetters, i, i) = c
         IN  SubSeq(LowerLetters, i, i)
    ELSE c

\* str::to_lowercase
RECURSIVE to_lowercase(_)
to_lowercase(s) ==
    IF s = "" THEN ""
    ELSE to_lowercase_char(SubSeq(s, 1, 1)) \o to_lowercase(SubSeq(s, 2, Len(s)))

\* str::contains
contains(s, pat) ==
    \E i \in 1..(Len(s) - Len(pat) + 1) : SubSeq(s, i, i + Len(pat) - 1) = pat

ConnectionError_new(user_message, detail) ==
    [user_message |-> user_message, detail |-> detail]

\* Variant that looks for "timeout" before "connection refused".
classify_connection_error_TimeoutFirst(err) ==
    IF err.db
    THEN IF err.code = INVALID_PASSWORD
         THEN ConnectionError_new("Password authentication failed.", err.text)
         ELSE IF err.code = INVALID_AUTHORIZATION_SPECIFICATION
         THEN ConnectionError_new("User does not exist or lacks permission.", err.text)
         ELSE IF err.code = INVALID_CATALOG_NAME
         THEN ConnectionError_new("Database does not exist.", err.text)
         ELSE ConnectionError_new(err.message, err.text)
    ELSE LET lower == to_lowercase(err.text)
         IN  IF contains(lower, "timeout")
             THEN ConnectionError_new("Connection timed out.", err.text)
             ELSE IF contains(lower, "connection refused")
             THEN ConnectionError_new(
                      "Unable to reach the database host (connection refused).", err.text)
             ELSE ConnectionError_new("Failed to connect to the database.", err.text)

classify_connection_error(err) ==
    IF err.db
    THEN IF err.code = INVALID_PASSWORD
         THEN ConnectionError_new("Password authentication failed.", err.text)
         ELSE IF err.code = INVALID_AUTHORIZATION_SPECIFICATION
         THEN ConnectionError_new("User does not exist or lacks permission.", err.text)
         ELSE IF err.code = INVALID_CATALOG_NAME
         THEN ConnectionError_new("Database does not exist.", err.text)
         ELSE ConnectionError_new(err.message, err.text)
    ELSE LET lower == to_lowercase(err.text)
         IN  IF contains(lower, "connection refused")
             THEN ConnectionError_new(
                      "Unable to reach the database host (connection refused).", err.text)
             ELSE IF contains(lower, "timeout")
             THEN ConnectionError_new("Connection timed out.", err.text)
             ELSE ConnectionError_new("Failed to connect to the database.", err.text)

ClassifyInit ==
    /\ SessionInit
    /\ RestIdle
    /\ QueryIdle
    /\ \E err \in DbErrors \cup OtherErrors : arg = [fn |-> "error", err |-> err]
    /\ ret = NoRet

classify_connection_error_call ==
    /\ arg.fn = "error" /\ ret = NoRet
    /\ ret' = [fn |-> "classify_connection_error",
               error |-> classify_connection_error(arg.err)]
    /\ UNCHANGED <<arg, sessionVars, queryVars, restVars>>

ClassifyNext == classify_connection_error_call

SpecClassify == ClassifyInit /\ [][ClassifyNext]_vars

\* ----------------------------------------------------------------------
\* C25: classify_connection_error takes the first rule that matches, in
\* the order: invalid-password code, invalid-authorization code,
\* unknown-database code, any other server error (the server's message),
\* then raw text containing "connection refused" in any letter case, then
\* containing "timeout", then the generic summary; detail is always the
\* full error text.
StartsWith(s, p) == Len(s) >= Len(p) /\ SubSeq(s, 1, Len(p)) = p

\* The text holds the words in some letter case: some window of it equals
\* the words once both are lowered.
HoldsWords(text, words) ==
    \E i \in 1..(Len(text) - Len(words) + 1) :
        to_lowercase(SubSeq(text, i, i + Len(words) - 1)) = words

ExpectedRule(err) ==
    IF err.db /\ err.code = "28P01" THEN "password"
    ELSE IF err.db /\ err.code = "28000" THEN "authorization"
    ELSE IF err.db /\ err.code = "3D000" THEN "database"
    ELSE IF err.db THEN "server"
    ELSE IF HoldsWords(err.text, "connection refused") THEN "refused"
    ELSE IF HoldsWords(err.text, "timeout") THEN "timeout"
    ELSE "generic"

C25_ClassificationOrder ==
    ret.fn = "classify_connection_error" =>
        LET rule == ExpectedRule(arg.err)
            summary == ret.error.user_message
        IN  /\ ret.error.detail = arg.err.text
            /\ rule = "password" => StartsWith(summary, "Password authentication failed")
            /\ rule = "authorization" =>
                 StartsWith(summary, "User does not exist or lacks permission")
            /\ rule = "database" => StartsWith(summary, "Database does not exist")
            /\ rule = "server" => summary = arg.err.message
            /\ rule = "refused" =>
                 /\ StartsWith(summary, "Unable to reach the database host")
                 /\ contains(summary, "connection refused")
            /\ rule = "timeout" => StartsWith(summary, "Connection timed out")
            /\ rule = "generic" => StartsWith(summary, "Failed to connect")

C25_Witness ==
    /\ ret.fn = "classify_connection_error"
    /\ ~arg.err.db
    /\ arg.err.text = "IO: Timeout elapsed then connection refused"
    /\ ret.error.user_message = "Unable to reach the database host (connection refused)."

\* ---------------------------------------------------------------- C26
\* The prefix the worker puts in front of the error of a metadata command.
MetadataPrefix(kind) ==
    CASE kind = "FetchSchemas" -> "Failed to load schemas: "
      [] kind = "FetchTables" -> "Failed to load tables: "
      [] kind = "FetchColumns" -> "Failed to load columns: "
      [] kind = "PreviewTable" -> "Failed to preview table: "
      [] OTHER -> "?"

MetadataKinds == {"FetchSchemas", "FetchTables", "FetchColumns", "PreviewTable"}

\* The error texts the operation in flight can return in the current state.
UnderlyingErrors ==
    {r.err : r \in {o \in (IF impl = "lib" THEN AdapterOutcomes(adapter, conn)
                           ELSE QueryOutcomes(conn)) : ~o.ok}}

ErrorTexts == {ERR_NOT_CONNECTED, ERR_DB, ERR_CLOSED}

C26_State ==
    \A i \in 1..Len(events) :
        /\ events[i].kind = "QueryFailed" =>
              /\ events[i].cmd \in 1..Len(sent)
              /\ sent[events[i].cmd].kind = "Execute"
              /\ events[i].msg \in ErrorTexts
        /\ events[i].kind = "MetadataFailed" =>
              /\ events[i].cmd \in 1..Len(sent)
              /\ sent[events[i].cmd].kind \in MetadataKinds
              /\ \E x \in ErrorTexts :
                    events[i].msg = MetadataPrefix(sent[events[i].cmd].kind) \o x

C26_Step ==
    (Len(events') = Len(events) + 1 /\ events'[Len(events')].kind \in FailureKinds) =>
        LET e == events'[Len(events')] IN
        /\ e.cmd = cur.id
        /\ e.kind = "QueryFailed" =>
              (cur.kind = "Execute" /\ e.msg \in UnderlyingErrors)
        /\ e.kind = "MetadataFailed" =>
              /\ cur.kind \in MetadataKinds
              /\ \E x \in UnderlyingErrors : e.msg = MetadataPrefix(cur.kind) \o x

\* C26: every MetadataFailed message is the prefix naming the failed command
\* (schemas, tables, columns, preview) followed by the text of the error the
\* operation returned, and every QueryFailed message is exactly the text of
\* the error the operation returned, with no prefix.
C26_FailureMessages == []C26_State /\ [][C26_Step]_vars

C26_Witness ==
    \E i, j \in CommandEvents :
        /\ events[i].kind = "MetadataFailed"
        /\ events[i].msg = "Failed to load tables: " \o ERR_DB
        /\ events[j].kind = "QueryFailed"
        /\ events[j].msg = ERR_CLOSED

\* ---------------------------------------------------------------- C27
ConnectCalls == {k \in 1..Len(calls) : calls[k].op = "connect"}

CallsFor(id) == {k \in 1..Len(calls) : calls[k].cmd = id}

\* The worker has got past adapter.connect().
PastConnect ==
    wpc \in {"connect_failed", "ready", "running", "in_call", "disconnecting"}

\* The command was taken from the queue.
WasDequeued(id) == id = cur.id \/ id \in inflight \/ EventsOf(id) # {}

\* The command is served by an operation: every command of the adapter-based
\* worker; the UI worker's Disconnect arm drops the client without a call.
HasOperation(c) == impl = "lib" \/ c.kind # "Disconnect"

C27_State ==
    /\ Cardinality(ConnectCalls) <= 1
    /\ PastConnect => Cardinality(ConnectCalls) = 1
    /\ \A id \in 1..Len(sent) :
          /\ Cardinality(CallsFor(id)) <= 1
          /\ (WasDequeued(id) /\ HasOperation(sent[id])) =>
                \E k \in CallsFor(id) : calls[k].op = AdapterOp(sent[id].kind)

C27_Step ==
    /\ Len(calls') \in {Len(calls), Len(calls) + 1}
    /\ SubSeq(calls', 1, Len(calls)) = calls
    \* connect is called from the connecting step only, and only once; an
    \* operation of a command is called in the step that dequeues it
    /\ (Len(calls') = Len(calls) + 1) =>
          LET c == calls'[Len(calls')] IN
          /\ c.op = "connect" => (wpc = "connecting" /\ ConnectCalls = {})
          /\ c.op \notin {"connect", "disconnect"} =>
                (cur' # cur /\ c.cmd = cur'.id /\ CallsFor(c.cmd) = {})
    \* a result, Ok or Err, and a connection loss start no further call
    /\ (conn' \notin {conn, "alive"} \/
        (Len(events') = Len(events) + 1 /\ events'[Len(events')].cmd # 0)) =>
          \A k \in 1..Len(calls') :
              (k > Len(calls)) => calls'[k].op = "disconnect"
    \* a command is called when it is dequeued and at no other step
    /\ (cur' # cur /\ HasOperation(cur')) =>
          /\ Len(calls') = Len(calls) + 1
          /\ calls'[Len(calls')] = Call(AdapterOp(cur'.kind), "worker", cur'.id)

\* C27: nothing is retried: one spawn calls connect exactly once, never again
\* after a failed connect, a failed command or a lost connection, and every
\* dequeued command calls its adapter operation exactly once, whether the
\* operation succeeds or fails.
C27_NoRetry == []C27_State /\ [][C27_Step]_vars

C27_Witness ==
    /\ impl = "lib"
    /\ Cardinality(ConnectCalls) = 1
    /\ conn = "closed_err"
    /\ \E i, j \in CommandEvents :
          /\ events[i].cmd = 1 /\ events[i].kind \in FailureKinds
          /\ events[j].cmd = 2 /\ events[j].kind \in FailureKinds
    /\ Cardinality(CallsFor(1)) = 1 /\ Cardinality(CallsFor(2)) = 1

\* ---------------------------------------------------------------- C28
\* The step made a call of one of the given adapter operations.
StepCalls(ops) ==
    /\ Len(calls') = Len(calls) + 1
    /\ calls'[Len(calls')].op \in ops

QueryOps == {"execute", "fetch_schemas", "fetch_tables", "fetch_columns", "preview_table"}

\* The step is the call, or the return, of a query operation of the adapter.
QueryOpStep ==
    \/ StepCalls(QueryOps)
    \/ (Len(events') = Len(events) + 1 /\ events'[Len(events')].cmd # 0)

C28_State ==
    /\ (calls = <<>>) => adapter = PostgresAdapter_new
    /\ adapter.disconnecting <=> (\E k \in 1..Len(calls) : calls[k].op = "disconnect")

C28_Step ==
    /\ adapter.disconnecting => adapter'.disconnecting
    /\ (adapter'.disconnecting # adapter.disconnecting) => StepCalls({"disconnect"})
    /\ (adapter'.client # adapter.client) => StepCalls({"connect", "disconnect"})
    /\ QueryOpStep => adapter' = adapter

\* C28: the adapter's disconnecting flag starts false, is set only by the
\* disconnect operation, only ever goes from false to true, and the calls of
\* execute, fetch_schemas, fetch_tables, fetch_columns and preview_table
\* leave the flag and the held client as they were.
C28_FlagMonotone == []C28_State /\ [][C28_Step]_vars

C28_Witness ==
    /\ impl = "lib"
    /\ adapter = [client |-> FALSE, disconnecting |-> TRUE]
    /\ \E i, j \in CommandEvents :
          /\ events[i].kind = "QueryFinished"
          /\ events[j].kind = "MetadataFailed"
    /\ Cardinality({k \in 1..Len(calls) : calls[k].op = "disconnect"}) = 2

\* ---------------------------------------------------------------- C29
\* C29: Connected is the first event of a session that connects: no
\* ConnectionClosed event is on the event channel before the supervisor
\* thread has enqueued Connected, whatever the interleaving of the supervisor
\* thread with the worker's monitor task.
C29_ConnectedBeforeClosed ==
    \A i \in 1..Len(events) :
        events[i].kind = "ConnectionClosed" =>
            \E j \in 1..(i - 1) : events[j].kind = "Connected"

\* ---------------------------------------------------------------- C30
\* An unexpected closure has been reported.
ClosureReported == ClosedEvents(TRUE) # {}

\* The worker has left the command loop.
LeftLoop == wpc \in {"disconnecting", "terminated"}

\* recv() returned None: every sender is gone and the queue is empty.
ChannelClosed == handle = "dropped" /\ cmdq = <<>>

C30_State ==
    ClosureReported =>
        /\ LeftLoop => (cur.kind = "Disconnect" \/ ChannelClosed)
        /\ (wpc = "running" /\ cmdq # <<>>) => ENABLED (Lib_Dequeue \/ Ui_Dequeue)
        /\ (wpc = "in_call") => ENABLED (Lib_CallReturn \/ Ui_CallReturn)
        /\ \A id \in 1..Len(sent) :
              /\ Cardinality(EventsOf(id)) <= 1
              /\ (WasDequeued(id) /\ id \notin inflight /\ sent[id].kind # "Disconnect")
                    => Cardinality(EventsOf(id)) = 1

C30_Step ==
    \* the report itself leaves the loop where it was
    /\ (Len(events') = Len(events) + 1 /\ events'[Len(events')].kind = "ConnectionClosed"
           /\ events'[Len(events')].some) =>
          (wpc' = wpc /\ cmdq' = cmdq /\ cmdRx' = cmdRx /\ cur' = cur
              /\ inflight' = inflight)
    \* afterwards the loop is left only by the Disconnect arm or by recv() = None
    /\ (ClosureReported /\ ~LeftLoop /\ LeftLoop') =>
          (wpc = "running" /\ (cur'.kind = "Disconnect" \/ ChannelClosed))
    \* and an operation that returns sends its one event and goes back to recv()
    /\ (ClosureReported /\ wpc = "in_call" /\ wpc' # wpc) =>
          /\ wpc' = "running"
          /\ Len(events') = Len(events) + 1
          /\ events'[Len(events')].cmd = cur.id

\* C30: an unexpected closure does not end the command loop: after
\* ConnectionClosed(Some(reason)) the worker stays in the loop, every command
\* it dequeues before a Disconnect still gets exactly one event, and the loop
\* is left only when a Disconnect is dequeued or the command channel is closed.
C30_LoopSurvivesClosure == []C30_State /\ [][C30_Step]_vars

C30_Witness ==
    \E k \in ClosedEvents(TRUE) : \E i, j \in CommandEvents :
        /\ k < i /\ i < j
        /\ events[i].cmd = 1 /\ events[j].cmd = 2
        /\ events[i].kind \in FailureKinds /\ events[j].kind \in FailureKinds
        /\ wpc = "running"

\* ---------------------------------------------------------------- C31
AllClosedEvents == ClosedEvents(TRUE) \cup ClosedEvents(FALSE)

C31_State ==
    /\ Cardinality(AllClosedEvents) <= 1
    /\ (AllClosedEvents # {}) <=> (monitor = "done")

C31_Step ==
    (Len(events') = Len(events) + 1 /\ events'[Len(events')].kind = "ConnectionClosed") =>
        (monitor = "waiting" /\ monitor' = "done" /\ AllClosedEvents = {})

\* C31: a session emits at most one ConnectionClosed event, whatever the
\* commands, connection failures and disconnects: the event is sent by the
\* monitor task, which sends it once and is then finished.
C31_AtMostOneClosed == []C31_State /\ [][C31_Step]_vars

C31_Witness ==
    /\ Cardinality(AllClosedEvents) = 1
    /\ wpc = "terminated"
    /\ \E d \in 1..Len(sent) : sent[d].kind = "Disconnect"
    /\ \E i \in CommandEvents : events[i].kind \in FailureKinds

\* ======================================================================
\* A session whose consumer lets go of the event receiver
\* ======================================================================
\* The consumer drops its Receiver<DbEvent>: the channel is closed and every
\* later send returns Err.
CloseEventReceiver ==
    /\ eventRx
    /\ eventRx' = FALSE
    /\ UNCHANGED <<sessionVars, queryVars, pureVars, appVars, input>>

NextClosed == Next \/ CloseEventReceiver

SpecClosed == Init /\ [][NextClosed]_vars

\* ---------------------------------------------------------------- C32
\* The supervisor took the command sender and its send of Connected failed.
ConnectedUndelivered ==
    /\ ready = "taken" /\ spc = "done"
    /\ \A i \in 1..Len(events) : events[i].kind # "Connected"

C32_State ==
    /\ ConnectedUndelivered =>
          /\ handle \in {"dropping", "dropped"}
          /\ \E d \in 1..Len(sent) :
                sent[d].kind = "Disconnect" /\ (d \in refused \/ wpc # "running" \/ cmdq # <<>>)
          /\ (wpc # "terminated") => ENABLED (WorkerNext \/ MonitorNext)
          /\ (handle = "dropped") => (wpc = "terminated" /\ joinHandle = "joined")
    /\ (~eventRx /\ wpc = "in_call") => ENABLED (Lib_CallReturn \/ Ui_CallReturn)
    /\ (~eventRx /\ wpc = "running" /\ cmdq # <<>>) => ENABLED (Lib_Dequeue \/ Ui_Dequeue)

C32_Step ==
    ~eventRx =>
        /\ events' = events
        \* a command whose event cannot be sent is finished all the same
        /\ (wpc = "in_call" /\ wpc' # wpc) =>
              (wpc' = "running" /\ inflight' = inflight \ {cur.id} /\ cmdq' = cmdq)
        \* and a report that cannot be sent ends the monitor task only
        /\ (monitor = "waiting" /\ monitor' = "done") => wpc' = wpc

\* C32: when the send of Connected fails because the event receiver is
\* closed, the handle inside the event is dropped: Disconnect is enqueued
\* and the worker is joined, so the worker always has a step to take until
\* it has terminated; every other failed send is ignored and the worker goes
\* on exactly as after a send that succeeded.
C32_FailedSendsIgnored == []C32_State /\ [][C32_Step]_vars

C32_Witness ==
    /\ ConnectedUndelivered
    /\ wpc = "terminated" /\ handle = "dropped"
    /\ \E k \in 1..Len(calls) : calls[k].op = "connect"

\* ======================================================================
\* The application: DbMiruApp of src/src/main.rs over its sessions
\* ======================================================================
\* The window's thread runs the user's actions and poll_events; every
\* connect_selected spawns a worker of src/src/db.rs, taken here at the grain
\* the application can observe: the commands it dequeues and the events it
\* places on the one event channel all sessions share.

\* ---------------------------------------------------------------- bounds
\* Clicks and key presses of the user in one run of the application.
MaxActions == 2

\* The profiles in the store when the application starts; the first one is
\* the selected one.
StoredProfiles == <<"local", "staging">>

\* ------------------------------------------------- the database's catalog
ServerSchemas == <<"public", "audit">>
ServerTables(schema) == IF schema = "public" THEN <<"orders", "items">> ELSE <<"log">>
ServerColumns(schema, table) == <<schema \o "." \o table \o ".id">>
ServerPreview(schema, table) == <<schema \o "." \o table>>

\* ------------------------------------------------------ commands, events
AppCmd(kind, schema, table) == [kind |-> kind, schema |-> schema, table |-> table]

\* from is the session that sent the event; only Connected carries it in the
\* code (inside the handle), the others are told apart here for the record.
AppEvent(kind, from, schema, table, items, some) ==
    [kind |-> kind, from |-> from, schema |-> schema, table |-> table,
     items |-> items, some |-> some]

\* ------------------------------------------------------------ one worker
\* pc: "connecting" | "failed" | "failed_again" | "running" | "closing" | "terminated"
\* q: its command queue; conn: "none" | "alive" | "lost" | "closed";
\* announced: the supervisor has sent Connected; reported: the monitor task
\* has sent ConnectionClosed.
NewWorker ==
    [pc |-> "connecting", q |-> <<>>, conn |-> "none", announced |-> FALSE,
     reported |-> FALSE]

Sessions == 1..Len(workers)

\* commands.send(cmd): queued while the worker's receiver exists.
SendTo(ws, s, cmds) ==
    IF s = 0 \/ ws[s].pc \in {"terminated", "failed", "failed_again"} THEN ws
    ELSE [ws EXCEPT ![s].q = ws[s].q \o cmds]

\* Variant of the worker's answers in which a statement is never answered
\* with QueryFinished or QueryFailed.
App_ResultEvent_NeverQuery(s, c, ok) ==
    AppEvent("MetadataFailed", s, "", "", <<>>, FALSE)

\* The event a command of the UI worker ends in (src/src/db.rs 266-418).
App_ResultEvent(s, c, ok) ==
    CASE c.kind = "Execute" ->
            AppEvent(IF ok THEN "QueryFinished" ELSE "QueryFailed", s, "", "", <<>>, FALSE)
      [] c.kind = "FetchSchemas" ->
            IF ok THEN AppEvent("SchemasLoaded", s, "", "", ServerSchemas, FALSE)
            ELSE AppEvent("MetadataFailed", s, "", "", <<>>, FALSE)
      [] c.kind = "FetchTables" ->
            IF ok THEN AppEvent("TablesLoaded", s, c.schema, "", ServerTables(c.schema), FALSE)
            ELSE AppEvent("MetadataFailed", s, "", "", <<>>, FALSE)
      [] c.kind = "FetchColumns" ->
            IF ok THEN AppEvent("ColumnsLoaded", s, c.schema, c.table,
                                ServerColumns(c.schema, c.table), FALSE)
            ELSE AppEvent("MetadataFailed", s, "", "", <<>>, FALSE)
      [] c.kind = "PreviewTable" ->
            IF ok THEN AppEvent("TablePreviewReady", s, c.schema, c.table,
                                ServerPreview(c.schema, c.table), FALSE)
            ELSE AppEvent("MetadataFailed", s, "", "", <<>>, FALSE)

\* config.connect(NoTls).await in run_worker.
AppWorker_Connect(s) ==
    /\ workers[s].pc = "connecting"
    /\ \E ok \in BOOLEAN :
         IF ok
         THEN /\ workers' = [workers EXCEPT ![s].pc = "running", ![s].conn = "alive"]
              /\ eventq' = eventq
         ELSE /\ workers' = [workers EXCEPT ![s].pc = "failed"]
              /\ eventq' = Append(eventq,
                                  AppEvent("ConnectionFailed", s, "", "", <<>>, FALSE))
    /\ UNCHANGED app

\* run_worker returned Err: the thread closure and then the supervisor's
\* Err arm each send a ConnectionFailed of their own.
AppWorker_ReportFailure(s) ==
    /\ workers[s].pc \in {"failed", "failed_again"}
    /\ eventq' = Append(eventq, AppEvent("ConnectionFailed", s, "", "", <<>>, FALSE))
    /\ workers' = [workers EXCEPT ![s].pc =
                      IF workers[s].pc = "failed" THEN "failed_again" ELSE "terminated"]
    /\ UNCHANGED app

\* The supervisor thread: Ok(command_tx), send Connected(handle).
AppSupervisor_Ready(s) ==
    /\ workers[s].pc = "running" /\ ~workers[s].announced
    /\ workers' = [workers EXCEPT ![s].announced = TRUE]
    /\ eventq' = Append(eventq, AppEvent("Connected", s, "", "", <<>>, FALSE))
    /\ UNCHANGED app

\* What client.query(..).await can return and what it finds the connection
\* to be: rows or a server error on a live connection, or an error because
\* the server or the network has ended the connection (only the worker and
\* its monitor task look at the connection, so it is found dead by them).
AppQueryOutcomes(c) ==
    IF c = "alive"
    THEN {[ok |-> TRUE, conn |-> "alive"], [ok |-> FALSE, conn |-> "alive"],
          [ok |-> FALSE, conn |-> "lost"]}
    ELSE {[ok |-> FALSE, conn |-> c]}

\* One iteration of process_commands: recv() and the matching arm.
AppWorker_Dequeue(s) ==
    /\ workers[s].pc = "running" /\ workers[s].q # <<>>
    /\ LET c == Head(workers[s].q) IN
       IF c.kind = "Disconnect"
       THEN /\ workers' = [workers EXCEPT
                  ![s].pc = "closing", ![s].q = Tail(workers[s].q),
                  ![s].conn = IF workers[s].conn = "alive" THEN "closed"
                              ELSE workers[s].conn]
            /\ eventq' = eventq
       ELSE \E r \in AppQueryOutcomes(workers[s].conn) :
            /\ workers' = [workers EXCEPT ![s].q = Tail(workers[s].q),
                                          ![s].conn = r.conn]
            /\ eventq' = Append(eventq, App_ResultEvent(s, c, r.ok))
    /\ UNCHANGED app

\* The monitor task: connection.await completes when the client has been
\* dropped (Ok) or the connection has been ended under it (Err), then the
\* oneshot and ConnectionClosed(outcome.err()).
AppWorker_Monitor(s) ==
    /\ workers[s].pc \in {"running", "closing"}
    /\ workers[s].conn # "none" /\ ~workers[s].reported
    /\ workers' = [workers EXCEPT
          ![s].reported = TRUE,
          ![s].conn = IF workers[s].conn = "alive" THEN "lost" ELSE workers[s].conn]
    /\ eventq' = Append(eventq, AppEvent("ConnectionClosed", s, "", "", <<>>,
                                         workers[s].conn # "closed"))
    /\ UNCHANGED app

\* `let _ = connection_closed_rx.await; Ok(())`: the worker thread ends.
AppWorker_Finish(s) ==
    /\ workers[s].pc = "closing" /\ workers[s].reported
    /\ workers' = [workers EXCEPT ![s].pc = "terminated"]
    /\ UNCHANGED <<app, eventq>>

\* ------------------------------------------------------- the application
\* SchemaBrowserState::default(); None is "" for the selections and <<>> for
\* the preview. error is last_error.is_some().
BrowserDefault ==
    [schemas |-> <<>>, schemas_loading |-> FALSE, selected_schema |-> "",
     tables |-> <<>>, tables_loading |-> FALSE, selected_table |-> "",
     columns |-> <<>>, columns_loading |-> FALSE, preview |-> <<>>,
     preview_loading |-> FALSE, error |-> FALSE]

\* SchemaBrowserState::start_schema_load
start_schema_load(b) == [BrowserDefault EXCEPT !.schemas_loading = TRUE]

\* SchemaBrowserState::stop_loading
stop_loading(b) ==
    [b EXCEPT !.schemas_loading = FALSE, !.tables_loading = FALSE,
              !.columns_loading = FALSE, !.preview_loading = FALSE]

\* DbMiruApp::new: ConnectionState, QueryState and SchemaBrowserState at
\* their defaults. pc is where the window's thread is: "idle" between
\* callbacks and "joining" inside the drop of a handle (joining: its
\* session; resume: where the thread goes on; pending: the commands the
\* interrupted handler still has to send).
AppStart ==
    [pc |-> "idle", joining |-> 0, resume |-> "idle", pending |-> <<>>,
     status |-> "Disconnected", session |-> 0, profiles |-> StoredProfiles,
     actions |-> 0, query |-> "Idle", browser |-> BrowserDefault]

\* What a callback does: the application afterwards, the commands it sends
\* through the session it holds then (cmds), the handle it drops (drop, 0 for
\* none) and what it sent through that handle before (last).
Did(a, cmds, drop, last) == [app |-> a, cmds |-> cmds, drop |-> drop, last |-> last]

\* DbMiruApp::select_table
select_table(a, table) ==
    IF a.browser.selected_schema = "" \/ a.session = 0 THEN Did(a, <<>>, 0, <<>>)
    ELSE Did([a EXCEPT !.browser.selected_table = table,
                       !.browser.columns = <<>>,
                       !.browser.preview = <<>>,
                       !.browser.columns_loading = TRUE,
                       !.browser.preview_loading = TRUE],
             <<AppCmd("FetchColumns", a.browser.selected_schema, table),
               AppCmd("PreviewTable", a.browser.selected_schema, table)>>, 0, <<>>)

\* DbMiruApp::select_schema
select_schema(a, schema) ==
    IF a.session = 0 THEN Did([a EXCEPT !.browser.error = TRUE], <<>>, 0, <<>>)
    ELSE Did([a EXCEPT !.browser.selected_schema = schema,
                       !.browser.selected_table = "",
                       !.browser.tables = <<>>,
                       !.browser.columns = <<>>,
                       !.browser.preview = <<>>,
                       !.browser.tables_loading = TRUE,
                       !.browser.columns_loading = FALSE,
                       !.browser.preview_loading = FALSE],
             <<AppCmd("FetchTables", schema, "")>>, 0, <<>>)

\* Variant of the TablesLoaded arm without the comparison with the selection.
TablesLoadedApplies_Always(b, e) == TRUE

\* `self.schema_browser.selected_schema.as_deref() == Some(schema.as_str())`
TablesLoadedApplies(b, e) == b.selected_schema # "" /\ b.selected_schema = e.schema

\* ... `&& self.schema_browser.selected_table.as_deref() == Some(table.as_str())`
TableEventApplies(b, e) ==
    /\ b.selected_schema # "" /\ b.selected_schema = e.schema
    /\ b.selected_table # "" /\ b.selected_table = e.table

\* DbMiruApp::handle_db_event, one arm per event.
handle_db_event(a, e) ==
    LET h == a IN
    CASE e.kind = "Connected" ->
            Did([h EXCEPT !.status = "Connected", !.session = e.from,
                          !.browser = start_schema_load(a.browser)],
                <<AppCmd("FetchSchemas", "", "")>>, a.session, <<>>)
      [] e.kind \in {"ConnectionFailed", "ConnectionClosed"} ->
            Did([h EXCEPT !.status = "Disconnected", !.session = 0,
                          !.browser = BrowserDefault],
                <<>>, a.session, <<>>)
      [] e.kind \in {"QueryFinished", "QueryFailed"} ->
            Did([h EXCEPT !.query = "Idle"], <<>>, 0, <<>>)
      [] e.kind = "SchemasLoaded" ->
            LET a1 == [h EXCEPT !.browser.schemas_loading = FALSE,
                                !.browser.schemas = e.items,
                                !.browser.error = FALSE]
            IN  IF e.items = <<>>
                THEN Did([a1 EXCEPT !.browser.selected_schema = ""], <<>>, 0, <<>>)
                ELSE IF a1.browser.selected_schema = ""
                THEN select_schema(a1, Head(e.items))
                ELSE Did(a1, <<>>, 0, <<>>)
      [] e.kind = "TablesLoaded" ->
            IF TablesLoadedApplies(a.browser, e)
            THEN LET a1 == [h EXCEPT !.browser.tables_loading = FALSE,
                                     !.browser.tables = e.items,
                                     !.browser.error = FALSE]
                 IN  IF e.items = <<>>
                     THEN Did([a1 EXCEPT !.browser.selected_table = "",
                                         !.browser.columns = <<>>,
                                         !.browser.preview = <<>>], <<>>, 0, <<>>)
                     ELSE IF a1.browser.selected_table = ""
                     THEN select_table(a1, Head(e.items))
                     ELSE Did(a1, <<>>, 0, <<>>)
            ELSE Did(h, <<>>, 0, <<>>)
      [] e.kind = "ColumnsLoaded" ->
            IF TableEventApplies(a.browser, e)
            THEN Did([h EXCEPT !.browser.columns_loading = FALSE,
                               !.browser.columns = e.items,
                               !.browser.error = FALSE], <<>>, 0, <<>>)
            ELSE Did(h, <<>>, 0, <<>>)
      [] e.kind = "TablePreviewReady" ->
            IF TableEventApplies(a.browser, e)
            THEN Did([h EXCEPT !.browser.preview_loading = FALSE,
                               !.browser.preview = e.items,
                               !.browser.error = FALSE], <<>>, 0, <<>>)
            ELSE Did(h, <<>>, 0, <<>>)
      [] e.kind = "MetadataFailed" ->
            Did([h EXCEPT !.browser = [stop_loading(a.browser) EXCEPT !.error = TRUE]],
                <<>>, 0, <<>>)

\* The window's thread carries out what a callback did and goes on at `next`:
\* the commands are sent; a dropped handle sends Disconnect and joins its
\* worker before the callback sends anything more.
Carry(r, next) ==
    IF r.drop = 0
    THEN /\ workers' = SendTo(workers, r.app.session, r.cmds)
         /\ app' = [r.app EXCEPT !.pc = next]
    ELSE /\ workers' = SendTo(workers, r.drop,
                              r.last \o <<AppCmd("Disconnect", "", "")>>)
         /\ app' = [r.app EXCEPT !.pc = "joining", !.joining = r.drop,
                                 !.resume = next, !.pending = r.cmds]

\* Everything the application leaves alone.
appFrame == <<sessionVars, queryVars, pureVars, eventRx, input>>

\* ConnectionState::is_busy
is_busy(status) == status = "Connecting"

\* Variant of is_connected that never reports a live session.
is_connected_Never(status) == FALSE

\* ConnectionState::is_connected
is_connected(status) == status = "Connected"

\* The connection button while not connected: connect_selected. It returns
\* at once while busy or with no profile to connect to.
App_connect_selected ==
    /\ app.pc = "idle" /\ app.actions < MaxActions
    /\ ~is_connected(app.status)
    /\ ~is_busy(app.status)
    /\ app.profiles # <<>>
    /\ app' = [app EXCEPT !.status = "Connecting", !.actions = app.actions + 1]
    /\ workers' = Append(workers, NewWorker)
    /\ UNCHANGED eventq
    /\ UNCHANGED appFrame

\* The connection button while connected: disconnect.
App_disconnect ==
    /\ app.pc = "idle" /\ app.actions < MaxActions
    /\ is_connected(app.status)
    /\ Carry(Did([app EXCEPT !.status = "Disconnected", !.session = 0,
                             !.browser = BrowserDefault,
                             !.actions = app.actions + 1],
                 <<>>, app.session,
                 IF app.session # 0 THEN <<AppCmd("Disconnect", "", "")>> ELSE <<>>),
             "idle")
    /\ UNCHANGED eventq
    /\ UNCHANGED appFrame

\* delete_selected_profile: the profile is removed; when the store was
\* saved the connection is given up as well.
App_delete_selected_profile ==
    /\ app.pc = "idle" /\ app.actions < MaxActions
    /\ app.profiles # <<>>
    /\ \E saved \in BOOLEAN :
         LET a1 == [app EXCEPT !.profiles = Tail(app.profiles),
                               !.actions = app.actions + 1] IN
         IF saved
         THEN Carry(Did([a1 EXCEPT !.status = "Disconnected", !.session = 0],
                        <<>>, app.session,
                        IF app.session # 0 /\ is_connected(app.status)
                        THEN <<AppCmd("Disconnect", "", "")>> ELSE <<>>),
                    "idle")
         ELSE Carry(Did(a1, <<>>, 0, <<>>), "idle")
    /\ UNCHANGED eventq
    /\ UNCHANGED appFrame

\* execute_query with a statement in the editor.
App_execute_query ==
    /\ app.pc = "idle" /\ app.actions < MaxActions
    /\ app.session # 0
    /\ app.status # "Connecting"
    /\ app.query # "Running"
    /\ Carry(Did([app EXCEPT !.query = "Running", !.actions = app.actions + 1],
                 <<AppCmd("Execute", "", "")>>, 0, <<>>), "idle")
    /\ UNCHANGED eventq
    /\ UNCHANGED appFrame

\* A click on one of the schemas listed.
App_select_schema ==
    /\ app.pc = "idle" /\ app.actions < MaxActions
    /\ \E i \in 1..Len(app.browser.schemas) :
         Carry(select_schema([app EXCEPT !.actions = app.actions + 1],
                             app.browser.schemas[i]), "idle")
    /\ UNCHANGED eventq
    /\ UNCHANGED appFrame

\* A click on one of the tables listed.
App_select_table ==
    /\ app.pc = "idle" /\ app.actions < MaxActions
    /\ \E i \in 1..Len(app.browser.tables) :
         Carry(select_table([app EXCEPT !.actions = app.actions + 1],
                            app.browser.tables[i]), "idle")
    /\ UNCHANGED eventq
    /\ UNCHANGED appFrame

\* poll_events: `while let Ok(event) = self.event_rx.try_recv()`, one round
\* of the loop. The rounds of one call are steps of their own: an event the
\* loop finds is one a worker may as well send after the loop has returned,
\* so the user's callbacks may come between any two events.
App_handle_event ==
    /\ app.pc = "idle" /\ eventq # <<>>
    /\ Carry(handle_db_event(app, Head(eventq)), "idle")
    /\ eventq' = Tail(eventq)
    /\ UNCHANGED appFrame

\* handle.join() inside Drop returns; the interrupted callback goes on.
App_joined ==
    /\ app.pc = "joining" /\ JoinReturns(workers[app.joining].pc)
    /\ workers' = SendTo(workers, app.session, app.pending)
    /\ app' = [app EXCEPT !.pc = app.resume, !.joining = 0, !.resume = "idle",
                          !.pending = <<>>]
    /\ UNCHANGED eventq
    /\ UNCHANGED appFrame

AppWorkerNext(s) ==
    \/ AppWorker_Connect(s)
    \/ AppWorker_ReportFailure(s)
    \/ AppSupervisor_Ready(s)
    \/ AppWorker_Dequeue(s)
    \/ AppWorker_Monitor(s)
    \/ AppWorker_Finish(s)

AppWorkersNext == \E s \in Sessions : AppWorkerNext(s) /\ UNCHANGED appFrame

AppUserNext ==
    \/ App_connect_selected
    \/ App_disconnect
    \/ App_delete_selected_profile
    \/ App_execute_query
    \/ App_select_schema
    \/ App_select_table

AppPollNext == App_handle_event \/ App_joined

AppInit ==
    /\ SessionInit
    /\ impl = "ui"
    /\ QueryIdle
    /\ PureIdle
    /\ ReceiverOpen
    /\ InputIdle
    /\ app = AppStart
    /\ workers = <<>>
    /\ eventq = <<>>

AppNext == AppUserNext \/ AppPollNext \/ AppWorkersNext

SpecApp == AppInit /\ [][AppNext]_vars

\* ---------------------------------------------------------------- C34
\* C34: in every state of the application, whatever the user's connect,
\* disconnect and delete-profile actions and the events handled,
\* connection.session holds a handle exactly when connection.status is
\* Connected.
C34_SessionIffConnected == (app.session # 0) <=> (app.status = "Connected")

C34_Witness ==
    /\ Len(workers) = 2
    /\ app.session = 2 /\ app.status = "Connected"
    /\ workers[1].pc = "terminated"

\* ======================================================================
\* The adapter by itself: a caller that owns a PostgresAdapter and invokes
\* the methods of DatabaseAdapter in any order (src/db/src/postgres.rs)
\* ======================================================================
\* Number of method calls the caller makes.
MaxCalls == 3

\* The methods that need the connection.
ClientOps == {"execute", "fetch_schemas", "fetch_tables", "fetch_columns", "preview_table"}

AdapterInit ==
    /\ SessionInit
    /\ impl = "lib"
    /\ QueryIdle
    /\ PureIdle
    /\ RestIdle

adapterFrame == <<impl, wpc, spc, ready, readyRx, cmdq, cmdRx, events, handle, sent,
                  refused, cur, inflight, client, monitor, closedTx, joinHandle,
                  queryVars, arg, restVars>>

\* connect(): config.connect fails and the adapter is as before, or it
\* succeeds and the adapter holds the new client (an earlier one is dropped).
Adapter_connect ==
    /\ Len(calls) < MaxCalls
    /\ calls' = Append(calls, Call("connect", "caller", 0))
    /\ \E ok \in BOOLEAN :
         IF ok
         THEN /\ adapter' = PostgresAdapter_connect(adapter)
              /\ conn' = "alive"
              /\ ret' = [fn |-> "connect", result |-> Ok]
         ELSE /\ ret' = [fn |-> "connect", result |-> Err("Failed to connect to the database.")]
              /\ UNCHANGED <<adapter, conn>>
    /\ UNCHANGED adapterFrame

\* disconnect(): sets the flag and drops the client, which ends the connection.
Adapter_disconnect ==
    /\ Len(calls) < MaxCalls
    /\ calls' = Append(calls, Call("disconnect", "caller", 0))
    /\ adapter' = PostgresAdapter_disconnect(adapter)
    /\ conn' = IF conn = "alive" /\ adapter.client THEN "closed_ok" ELSE conn
    /\ ret' = [fn |-> "disconnect", result |-> Ok]
    /\ UNCHANGED adapterFrame

\* execute / fetch_schemas / fetch_tables / fetch_columns / preview_table.
Adapter_operation ==
    /\ Len(calls) < MaxCalls
    /\ \E op \in ClientOps :
         /\ calls' = Append(calls, Call(op, "caller", 0))
         /\ \E r \in AdapterOutcomes(adapter, conn) : ret' = [fn |-> op, result |-> r]
    /\ UNCHANGED <<adapter, conn>>
    /\ UNCHANGED adapterFrame

\* The server or the network ends the connection.
Adapter_connection_lost ==
    /\ conn = "alive"
    /\ conn' = "closed_err"
    /\ UNCHANGED <<calls, adapter, ret>>
    /\ UNCHANGED adapterFrame

AdapterNext ==
    \/ Adapter_connect
    \/ Adapter_disconnect
    \/ Adapter_operation
    \/ Adapter_connection_lost

SpecAdapter == AdapterInit /\ [][AdapterNext]_vars

\* ----------------------------------------------------------------------
\* C33: every adapter operation that needs the connection (execute,
\* fetch_schemas, fetch_tables, fetch_columns, preview_table), invoked
\* while the adapter holds no client (before connect or after disconnect),
\* returns the error "Database client is not connected." and leaves the
\* adapter's fields as they were.
\* ----------------------------------------------------------------------
LastCall == calls[Len(calls)]

C33_State ==
    (calls # <<>> /\ LastCall.op \in ClientOps /\ ~adapter.client)
        => ret = [fn |-> LastCall.op, result |-> Err(ERR_NOT_CONNECTED)]

C33_Step ==
    (Len(calls') = Len(calls) + 1 /\ calls'[Len(calls')].op \in ClientOps)
        => /\ adapter' = adapter
           /\ ~adapter.client => ret'.result = Err(ERR_NOT_CONNECTED)
           /\ adapter.client => ret'.result # Err(ERR_NOT_CONNECTED)

C33_NoClientIsAnError == []C33_State /\ [][C33_Step]_vars

\* An operation called after connect and disconnect was answered with the error.
C33_Witness ==
    /\ Len(calls) = 3
    /\ calls[1].op = "connect" /\ calls[2].op = "disconnect"
    /\ calls[3].op = "preview_table"
    /\ adapter = [client |-> FALSE, disconnecting |-> TRUE]
    /\ ret.result = Err(ERR_NOT_CONNECTED)

\* ----------------------------------------------------------------------
\* C35: the UI never calls spawn_session while an earlier spawn_session
\* call has not yet had its Connected or ConnectionFailed event handled:
\* a status of Connecting is left only by handling that event of the
\* session spawned last, and a session is spawned only when every earlier
\* one has had such an event handled.
\* ----------------------------------------------------------------------
SpawnEventKinds == {"Connected", "ConnectionFailed"}

\* How many Connected / ConnectionFailed events session s has sent so far.
SpawnEventsSent(s) ==
    IF workers[s].conn = "none"
    THEN CASE workers[s].pc = "connecting" -> 0
           [] workers[s].pc = "failed" -> 1
           [] workers[s].pc = "failed_again" -> 2
           [] OTHER -> 3
    ELSE IF workers[s].announced THEN 1 ELSE 0

\* ... and how many of them still wait in the event channel.
SpawnEventsQueued(s) ==
    Cardinality({i \in 1..Len(eventq) :
                    eventq[i].from = s /\ eventq[i].kind \in SpawnEventKinds})

SpawnHandled(s) == SpawnEventsSent(s) > SpawnEventsQueued(s)

\* The step handles a Connected / ConnectionFailed event of session s.
HandlesSpawnEventOf(s) ==
    /\ eventq # <<>> /\ eventq' = Tail(eventq)
    /\ Head(eventq).kind \in SpawnEventKinds
    /\ Head(eventq).from = s

C35_SpawnStep ==
    Len(workers') > Len(workers) => \A s \in Sessions : SpawnHandled(s)

C35_StatusStep ==
    (app.status = "Connecting" /\ app'.status # "Connecting")
        => HandlesSpawnEventOf(Len(workers))

C35_OneSpawnAtATime == [][C35_SpawnStep /\ C35_StatusStep]_vars

\* ----------------------------------------------------------------------
\* C37: a TablesLoaded event is applied only when its schema is the
\* selected schema, a ColumnsLoaded or TablePreviewReady event only when
\* its schema and its table are the selected ones; an event that does not
\* match leaves the schema browser as it was, so the tables, columns and
\* preview shown always belong to the current selection, in every order of
\* select_schema / select_table calls and event arrivals.
\* ----------------------------------------------------------------------
\* The step is poll_events handling the event at the head of the channel.
HandlesEvent == eventq # <<>> /\ eventq' = Tail(eventq)

StaleFor(b, e) ==
    \/ e.kind = "TablesLoaded" /\ b.selected_schema # e.schema
    \/ /\ e.kind \in {"ColumnsLoaded", "TablePreviewReady"}
       /\ (b.selected_schema # e.schema \/ b.selected_table # e.table)

C37_State ==
    LET b == app.browser IN
    /\ b.tables # <<>> =>
          b.selected_schema # "" /\ b.tables = ServerTables(b.selected_schema)
    /\ b.columns # <<>> =>
          /\ b.selected_schema # "" /\ b.selected_table # ""
          /\ b.columns = ServerColumns(b.selected_schema, b.selected_table)
    /\ b.preview # <<>> =>
          /\ b.selected_schema # "" /\ b.selected_table # ""
          /\ b.preview = ServerPreview(b.selected_schema, b.selected_table)

C37_Step ==
    HandlesEvent =>
        LET e == Head(eventq) IN
        /\ StaleFor(app.browser, e) =>
              /\ app'.browser = app.browser
              /\ workers' = workers
        /\ (e.kind = "TablesLoaded" /\ ~StaleFor(app.browser, e)) =>
              app'.browser.tables = e.items
        /\ (e.kind = "ColumnsLoaded" /\ ~StaleFor(app.browser, e)) =>
              app'.browser.columns = e.items
        /\ (e.kind = "TablePreviewReady" /\ ~StaleFor(app.browser, e)) =>
              app'.browser.preview = e.items

C37_StaleEventsIgnored == []C37_State /\ [][C37_Step]_vars

\* The user chose "audit" while the tables of "public" were being loaded:
\* the worker has answered every request, only TablesLoaded("audit") still
\* waits, so the answers for "public" have been handled after the choice,
\* and the browser shows nothing of them.
C37_Witness ==
    /\ Len(workers) = 1 /\ workers[1].q = <<>> /\ app.session = 1
    /\ app.browser.selected_schema = "audit"
    /\ app.browser.tables = <<>> /\ app.browser.tables_loading
    /\ app.browser.columns = <<>> /\ ~app.browser.error
    /\ Len(eventq) = 1
    /\ eventq[1].kind = "TablesLoaded" /\ eventq[1].schema = "audit"

\* ----------------------------------------------------------------------
\* The application with its threads scheduled: while some worker thread
\* can take a step, one of them does in the end (adapter calls return; a
\* step of a worker stays possible until it is taken, so this is no more
\* than each thread being scheduled), and the window keeps rendering, so
\* poll_events keeps draining the channel and a join inside a drop returns
\* once the worker has ended.
\* ----------------------------------------------------------------------
FairApp ==
    /\ SpecApp
    /\ WF_vars(AppPollNext)
    /\ WF_vars(AppWorkersNext)

\* ----------------------------------------------------------------------
\* C36: whenever the query status is Running, a QueryFinished or
\* QueryFailed event is handled in the end and the status is Idle again,
\* also when the connection is lost or the user disconnects or deletes the
\* profile while the query runs.
\* ----------------------------------------------------------------------
ExecutesQueued(ws) ==
    Cardinality(UNION {{<<s, i>> : i \in {j \in 1..Len(ws[s].q) :
                                              ws[s].q[j].kind = "Execute"}} :
                       s \in 1..Len(ws)})

\* execute_query is the only sender of Execute, and sends none while Running.
C36_Step ==
    ExecutesQueued(workers') > ExecutesQueued(workers)
        => app.query = "Idle" /\ app'.query = "Running"

MaxChars == 2

\* The content is a sequence of characters; offsets count bytes of UTF-8. One
\* character of one byte and one UTF-16 unit, one of four bytes and two units;
\* each is a grapheme of its own.
Chars == {"a", "emoji"}
len_utf8(ch) == IF ch = "a" THEN 1 ELSE 4
len_utf16(ch) == IF ch = "a" THEN 1 ELSE 2

Texts == UNION {[1..k -> Chars] : k \in 0..MaxChars}

\* str::len
RECURSIVE ByteLen(_)
ByteLen(t) == IF t = <<>> THEN 0 ELSE len_utf8(Head(t)) + ByteLen(Tail(t))

\* The byte offset after k characters, and the offsets a slice may start or end at.
OffsetAfter(t, k) == ByteLen(SubSeq(t, 1, k))
is_char_boundary(t, offset) == \E k \in 0..Len(t) : OffsetAfter(t, k) = offset
CharsUpTo(t, offset) == CHOOSE k \in 0..Len(t) : OffsetAfter(t, k) = offset

\* grapheme_indices: the offset each grapheme starts at.
grapheme_indices(t) == {OffsetAfter(t, k - 1) : k \in 1..Len(t)}

SetMax(S) == CHOOSE x \in S : \A y \in S : y <= x
SetMin(S) == CHOOSE x \in S : \A y \in S : x <= y

\* TextInput::previous_boundary
previous_boundary(t, offset) ==
    LET S == {idx \in grapheme_indices(t) : idx < offset}
    IN  IF S = {} THEN 0 ELSE SetMax(S)

\* TextInput::next_boundary
next_boundary(t, offset) ==
    LET S == {idx \in grapheme_indices(t) : idx > offset}
    IN  IF S = {} THEN ByteLen(t) ELSE SetMin(S)

\* TextInput::offset_from_utf16: the loop over self.content.chars().
RECURSIVE offset_from_utf16_loop(_, _, _, _)
offset_from_utf16_loop(t, utf16_offset, utf16_count, utf8_offset) ==
    IF t = <<>> \/ utf16_count >= utf16_offset THEN utf8_offset
    ELSE offset_from_utf16_loop(Tail(t), utf16_offset,
                                utf16_count + len_utf16(Head(t)),
                                utf8_offset + len_utf8(Head(t)))

offset_from_utf16(t, utf16_offset) == offset_from_utf16_loop(t, utf16_offset, 0, 0)

\* TextInput::range_from_utf16
range_from_utf16(t, r) == <<offset_from_utf16(t, r[1]), offset_from_utf16(t, r[2])>>

\* A Range is <<start, end>>, None is <<>>.
None == <<>>

\* TextInput::new(cx, initial, placeholder)
TextInput_new(initial) ==
    [content |-> initial,
     selected_range |-> <<ByteLen(initial), ByteLen(initial)>>,
     selection_reversed |-> FALSE,
     marked_range |-> None,
     panicked |-> FALSE]

\* Indexing the content out of bounds or off a character boundary panics.
Panic(i) == [i EXCEPT !.panicked = TRUE]

\* `&s[a..b]`, `&s[..a]`, `&s[b..]` are in bounds.
SliceOk(t, a, b) == is_char_boundary(t, a) /\ is_char_boundary(t, b) /\ a <= b
PrefixOk(t, a) == is_char_boundary(t, a)
Prefix(t, a) == SubSeq(t, 1, CharsUpTo(t, a))
Suffix(t, b) == SubSeq(t, CharsUpTo(t, b) + 1, Len(t))

\* TextInput::set_text
set_text(i, value) ==
    [i EXCEPT !.content = value, !.selected_range = <<ByteLen(value), ByteLen(value)>>]

\* TextInput::clear
clear(i) == [i EXCEPT !.content = <<>>, !.selected_range = <<0, 0>>]

\* The range an edit replaces: the one given, else the marked one, else the selection.
EditRange(i, range_utf16) ==
    IF range_utf16 # None THEN range_from_utf16(i.content, range_utf16)
    ELSE IF i.marked_range # None THEN i.marked_range
    ELSE i.selected_range

\* `self.content[0..range.start].to_owned() + new_text + &self.content[range.end..]`
Spliced(t, range, new_text) == Prefix(t, range[1]) \o new_text \o Suffix(t, range[2])

\* TextInput::replace_text_in_range
replace_text_in_range(i, range_utf16, new_text) ==
    LET range == EditRange(i, range_utf16)
        caret == range[1] + ByteLen(new_text)
    IN  IF ~(PrefixOk(i.content, range[1]) /\ PrefixOk(i.content, range[2]))
        THEN Panic(i)
        ELSE [i EXCEPT !.content = Spliced(i.content, range, new_text),
                       !.selected_range = <<caret, caret>>,
                       !.marked_range = None]

\* EntityInputHandler::replace_and_mark_text_in_range
replace_and_mark_text_in_range(i, range_utf16, new_text, new_selected_range_utf16) ==
    LET range == EditRange(i, range_utf16)
        caret == range[1] + ByteLen(new_text)
    IN  IF ~(PrefixOk(i.content, range[1]) /\ PrefixOk(i.content, range[2]))
        THEN Panic(i)
        ELSE LET text == Spliced(i.content, range, new_text) IN
             [i EXCEPT !.content = text,
                       !.selected_range =
                           IF new_selected_range_utf16 # None
                           THEN range_from_utf16(text, new_selected_range_utf16)
                           ELSE <<caret, caret>>,
                       !.marked_range =
                           IF new_text # <<>> THEN <<range[1], caret>> ELSE None]

\* EntityInputHandler::unmark_text
unmark_text(i) == [i EXCEPT !.marked_range = None]

\* TextInput::move_to
move_to(i, offset) == [i EXCEPT !.selected_range = <<offset, offset>>]

\* TextInput::cursor_offset
cursor_offset(i) ==
    IF i.selection_reversed THEN i.selected_range[1] ELSE i.selected_range[2]

\* TextInput::select_to
select_to(i, offset) ==
    LET r == IF i.selection_reversed THEN <<offset, i.selected_range[2]>>
             ELSE <<i.selected_range[1], offset>>
    IN  IF r[2] < r[1]
        THEN [i EXCEPT !.selection_reversed = ~i.selection_reversed,
                       !.selected_range = <<r[2], r[1]>>]
        ELSE [i EXCEPT !.selected_range = r]

is_empty(r) == r[1] >= r[2]

\* TextInput::left, right, select_left, select_right, select_all, home, end
left(i) ==
    IF is_empty(i.selected_range)
    THEN move_to(i, previous_boundary(i.content, cursor_offset(i)))
    ELSE move_to(i, i.selected_range[1])

right(i) ==
    IF is_empty(i.selected_range)
    THEN move_to(i, next_boundary(i.content, i.selected_range[2]))
    ELSE move_to(i, i.selected_range[2])

select_left(i) == select_to(i, previous_boundary(i.content, cursor_offset(i)))
select_right(i) == select_to(i, next_boundary(i.content, cursor_offset(i)))
select_all(i) == select_to(move_to(i, 0), ByteLen(i.content))
home(i) == move_to(i, 0)
end(i) == move_to(i, ByteLen(i.content))

\* TextInput::backspace, delete
backspace(i) ==
    replace_text_in_range(
        IF is_empty(i.selected_range)
        THEN select_to(i, previous_boundary(i.content, cursor_offset(i))) ELSE i,
        None, <<>>)

delete(i) ==
    replace_text_in_range(
        IF is_empty(i.selected_range)
        THEN select_to(i, next_boundary(i.content, cursor_offset(i))) ELSE i,
        None, <<>>)

\* TextInput::cut: the selection is sliced for the clipboard, then replaced.
cut(i) ==
    IF is_empty(i.selected_range) THEN i
    ELSE IF ~SliceOk(i.content, i.selected_range[1], i.selected_range[2]) THEN Panic(i)
    ELSE replace_text_in_range(i, None, <<>>)

\* TextInput::paste with a text on the clipboard
paste(i, text) == replace_text_in_range(i, None, text)

\* The ranges the platform's input method passes, in UTF-16 units.
Utf16Ranges == {<<a, b>> : a \in 0..(2 * MaxChars), b \in 0..(2 * MaxChars)}
OrderedUtf16Ranges == {r \in Utf16Ranges : r[1] <= r[2]}
NonEmptyTexts == Texts \ {<<>>}

inputFrame == <<sessionVars, queryVars, pureVars, eventRx, appVars>>

\* One operation on the widget; longer contents than MaxChars are left out.
Apply(next) ==
    /\ ~input.panicked
    /\ Len(next.content) <= MaxChars
    /\ input' = next
    /\ UNCHANGED inputFrame

InputInit ==
    /\ SessionInit
    /\ impl = "ui"
    /\ QueryIdle
    /\ PureIdle
    /\ ReceiverOpen
    /\ AppIdle
    /\ \E initial \in Texts : input = TextInput_new(initial)

\* One call of a method of the widget: the key bindings, the clipboard, the
\* platform's input handler, and set_text / clear from the forms.
InputNext ==
    \/ \E value \in Texts : Apply(set_text(input, value))
    \/ Apply(clear(input))
    \/ Apply(left(input))
    \/ Apply(right(input))
    \/ Apply(select_left(input))
    \/ Apply(select_right(input))
    \/ Apply(select_all(input))
    \/ Apply(home(input))
    \/ Apply(end(input))
    \/ Apply(backspace(input))
    \/ Apply(delete(input))
    \/ Apply(cut(input))
    \/ \E text \in NonEmptyTexts : Apply(paste(input, text))
    \/ Apply(unmark_text(input))
    \/ \E r \in OrderedUtf16Ranges \cup {None}, text \in Texts :
          Apply(replace_text_in_range(input, r, text))
    \/ \E r \in OrderedUtf16Ranges \cup {None}, text \in Texts,
          sel \in OrderedUtf16Ranges \cup {None} :
          Apply(replace_and_mark_text_in_range(input, r, text, sel))

SpecInput == InputInit /\ [][InputNext]_vars

\* ----------------------------------------------------------------------
\* C38: after any sequence of TextInput operations (set_text, clear, cursor
\* moves and selections, backspace, delete, cut, paste,
\* replace_text_in_range, replace_and_mark_text_in_range),
\* selected_range.start <= selected_range.end <= content length, and
\* marked_range, when present, lies within the content, so no later edit
\* slices the content out of bounds.
\* ----------------------------------------------------------------------
RangeWithin(r, t) == r[1] <= r[2] /\ r[2] <= ByteLen(t)

C38_RangesWithinContent ==
    /\ ~input.panicked
    /\ RangeWithin(input.selected_range, input.content)
    /\ input.marked_range # None => RangeWithin(input.marked_range, input.content)

====
